---- MODULE Spec2Model ----
(***************************************************************************)
(* A model of the safety-validated query execution and recovery loop of    *)
(* Talk_to_your_db: the SQL safety validator (sql_generator.py), the query *)
(* executor (query_executor.py) and the reasoning agent (agent.py).        *)
(*                                                                         *)
(* Text is modelled at the level of characters: a statement is a sequence  *)
(* of one-character strings, so that letter case, word boundaries,         *)
(* substrings and leading whitespace are computed as the code computes     *)
(* them.                                                                   *)
(***************************************************************************)
EXTENDS Integers, Sequences, FiniteSets, TLC

VARIABLES
    \* ---- the validator exercised on its own (SpecValidate) ----
    vsql,             \* the statement handed to validate_query
    vfrags,           \* how many fragments vsql was composed of
    vresult,          \* what validate_query returned for vsql, or NotRun
    \* ---- the executor exercised on its own (SpecExecute) ----
    xsql,             \* the statement handed to execute_query
    xoutcome,         \* what the store did with it
    xcall,            \* what the call to execute_query did: returned a result or raised
    \* ---- the agent (Spec) ----
    pc,               \* where answer_question stands
    question,         \* the kind of question being answered
    model,            \* self.model: the current LLM backend
    reasoning_steps,  \* self.reasoning_steps
    reasoning_text,   \* answer_question's local reasoning_text: the proposer's response
    sql,              \* answer_question's local sql
    retry_sql,        \* _execute_with_retry's local sql
    attempt,          \* _execute_with_retry's loop variable
    result,           \* the QueryResult of the last execution
    validations,      \* every statement handed to validate_query, with the verdict
    executions,       \* every statement handed to execute_query, in order
    corrections,      \* number of correction requests sent to the proposer
    recoveries,       \* every call of _recover_from_error: what it was given and what it did
    response,         \* what answer_question returned
    \* ---- the query builder exercised on its own (SpecPlan) ----
    plan,             \* the QueryPlan handed to build_query_from_plan
    built,            \* what build_query_from_plan did: returned a statement or raised
    \* ---- optimize_query exercised on its own (SpecOptimize) ----
    osql,             \* the text handed to optimize_query
    oparts,           \* how many fragments osql was composed of
    optimized,        \* optimize_query(osql)
    reoptimized,      \* optimize_query(optimize_query(osql))
    \* ---- the formatter exercised on its own (SpecFormat) ----
    fresult,          \* the QueryResult handed to format_result
    ftext,            \* what format_result returned for it
    \* ---- the schema explorer and the store it reads (SpecCatalog) ----
    store,            \* the tables of the store, in the order of their creation
    explorer,         \* the SchemaExplorer instance: whether built, and its schema_cache
    snapshot,         \* what the explorer was built from and what it returned right then
    \* ---- execute_multiple exercised on its own (SpecBatch) ----
    queries,          \* the list handed to execute_multiple, with what the store does to each
    mresults,         \* the list execute_multiple returned
    mexecuted,        \* the positions of the statements handed to execute_query, in order
    \* ---- _call_llm exercised on its own (SpecCall) ----
    lmodel,           \* self.model
    lsteps,           \* self.reasoning_steps
    lcall,            \* what the last _call_llm did
    lcalls,           \* number of _call_llm calls made
    \* ---- two answer_question invocations on one agent (SpecConcurrent) ----
    tpc,              \* where each invocation stands
    tstep,            \* each invocation's local step, built and not yet appended
    tsteps,           \* self.reasoning_steps, each step with the invocation that added it
    ttrace,           \* the trace each invocation returned
    overlapped,       \* for each invocation, whether the other was in flight during it
    twiped            \* for each invocation, whether the other's reset removed steps of it

vars == <<vsql, vfrags, vresult, xsql, xoutcome, xcall, pc, question, model, reasoning_steps,
          reasoning_text, sql, retry_sql, attempt, result, validations, executions, corrections,
          recoveries, response, plan, built, osql, oparts, optimized, reoptimized, fresult, ftext,
          store, explorer, snapshot, queries, mresults, mexecuted, lmodel, lsteps, lcall, lcalls,
          tpc, tstep, tsteps, ttrace, overlapped, twiped>>

validatorVars == <<vsql, vfrags, vresult>>
executorVars == <<xsql, xoutcome, xcall>>
agentVars == <<pc, question, model, reasoning_steps, reasoning_text, sql, retry_sql, attempt, result,
               validations, executions, corrections, recoveries, response>>
plannerVars == <<plan, built>>
optimizerVars == <<osql, oparts, optimized, reoptimized>>
formatterVars == <<fresult, ftext>>
catalogVars == <<store, explorer, snapshot>>
batchVars == <<queries, mresults, mexecuted>>
callVars == <<lmodel, lsteps, lcall, lcalls>>
concurrentVars == <<tpc, tstep, tsteps, ttrace, overlapped, twiped>>
\* the variables of the units exercised on their own, which the agent leaves alone
unitVars == <<validatorVars, executorVars, plannerVars, optimizerVars, formatterVars,
              catalogVars, batchVars, callVars, concurrentVars>>

-----------------------------------------------------------------------------
(* Bounds of the model.                                                    *)

\* Number of fragments a statement handed to the validator is composed of.
MaxFrags == 3
\* Largest reading of the clock (time.time()) around one execution.
MaxClock == 1
\* Number of fragments a text handed to optimize_query is composed of.
MaxParts == 3

-----------------------------------------------------------------------------
(* Text.                                                                   *)

LowerLetters == <<"a","b","c","d","e","f","g","h","i","j","k","l","m",
                  "n","o","p","q","r","s","t","u","v","w","x","y","z">>
UpperLetters == <<"A","B","C","D","E","F","G","H","I","J","K","L","M",
                  "N","O","P","Q","R","S","T","U","V","W","X","Y","Z">>
Digits == {"0","1","2","3","4","5","6","7","8","9"}
Whitespace == {" ", "\t", "\n", "\r"}

Range(s) == {s[i] : i \in 1..Len(s)}

\* str.upper() on one character
UpperChar(c) ==
    IF \E i \in 1..26 : LowerLetters[i] = c
    THEN UpperLetters[CHOOSE i \in 1..26 : LowerLetters[i] = c]
    ELSE c

\* str.upper()
upper(s) == [i \in 1..Len(s) |-> UpperChar(s[i])]

\* str.lower() on one character
LowerChar(c) ==
    IF \E i \in 1..26 : UpperLetters[i] = c
    THEN LowerLetters[CHOOSE i \in 1..26 : UpperLetters[i] = c]
    ELSE c

\* str.lower()
lower(s) == [i \in 1..Len(s) |-> LowerChar(s[i])]

\* the regular expression class \w
IsWordChar(c) == c \in Range(LowerLetters) \cup Range(UpperLetters) \cup Digits \cup {"_"}

\* s[i:i+len(t)] == t  (1-based i)
MatchAt(s, t, i) ==
    /\ i >= 1
    /\ i + Len(t) - 1 <= Len(s)
    /\ \A j \in 1..Len(t) : s[i + j - 1] = t[j]

\* t in s
contains(s, t) == \E i \in 1..(Len(s) - Len(t) + 1) : MatchAt(s, t, i)

\* s.startswith(t)
startswith(s, t) == MatchAt(s, t, 1)

\* (mutant) the search without the word boundaries: re.search(word, s)
re_search_no_boundary(word, s) == contains(s, word)

\* re.search(rf'\b{word}\b', s) for a word made of \w characters
re_search_word(word, s) ==
    \E i \in 1..(Len(s) - Len(word) + 1) :
        /\ MatchAt(s, word, i)
        /\ (i = 1 \/ ~IsWordChar(s[i - 1]))
        /\ (i + Len(word) - 1 = Len(s) \/ ~IsWordChar(s[i + Len(word)]))

\* str.strip(): leading and trailing whitespace removed
strip(s) ==
    LET solid == {i \in 1..Len(s) : s[i] \notin Whitespace}
    IN IF solid = {} THEN <<>>
       ELSE LET lo == CHOOSE i \in solid : \A j \in solid : i <= j
                hi == CHOOSE i \in solid : \A j \in solid : i >= j
            IN SubSeq(s, lo, hi)

\* Optional[str]: None, or a text given as the sequence of its pieces
None == [is_none |-> TRUE, text |-> <<>>]
Some(t) == [is_none |-> FALSE, text |-> t]

-----------------------------------------------------------------------------
(* sql_generator.py: SQLGenerator.validate_query                           *)

FORBIDDEN_KEYWORDS ==
    {"INSERT", "UPDATE", "DELETE", "DROP", "ALTER", "CREATE",
     "TRUNCATE", "REPLACE", "PRAGMA", "ATTACH", "DETACH"}

\* The characters of a keyword (TLC cannot index a string).
Chars(word) ==
    CASE word = "INSERT"   -> <<"I","N","S","E","R","T">>
      [] word = "UPDATE"   -> <<"U","P","D","A","T","E">>
      [] word = "DELETE"   -> <<"D","E","L","E","T","E">>
      [] word = "DROP"     -> <<"D","R","O","P">>
      [] word = "ALTER"    -> <<"A","L","T","E","R">>
      [] word = "CREATE"   -> <<"C","R","E","A","T","E">>
      [] word = "TRUNCATE" -> <<"T","R","U","N","C","A","T","E">>
      [] word = "REPLACE"  -> <<"R","E","P","L","A","C","E">>
      [] word = "PRAGMA"   -> <<"P","R","A","G","M","A">>
      [] word = "ATTACH"   -> <<"A","T","T","A","C","H">>
      [] word = "DETACH"   -> <<"D","E","T","A","C","H">>
      [] word = "SELECT"   -> <<"S","E","L","E","C","T">>
      [] word = "WITH"     -> <<"W","I","T","H">>
      [] word = "LIMIT"    -> <<"L","I","M","I","T">>
      [] word = "SELECT *" -> <<"S","E","L","E","C","T"," ","*">>
      [] word = "COUNT"    -> <<"C","O","U","N","T">>
      [] word = "GROUP BY" -> <<"G","R","O","U","P"," ","B","Y">>

ForbiddenReason(keyword) ==
    Some(<<"Forbidden operation detected: ", keyword, ". Only SELECT queries are allowed.">>)
SelectStarReason ==
    Some(<<"SELECT * must include a LIMIT clause to prevent large result sets.">>)
NotSelectReason ==
    Some(<<"Only SELECT queries (including CTEs with WITH) are allowed.">>)

\* The second check of validate_query: SELECT * without LIMIT.
SelectStarCheckFails(sql_upper) ==
    /\ contains(sql_upper, Chars("SELECT *"))
    /\ ~contains(sql_upper, Chars("LIMIT"))

\* (mutant) the third check with "in" for startswith
PrefixCheckFails_anywhere(sql_upper) ==
    /\ ~contains(strip(sql_upper), Chars("SELECT"))
    /\ ~contains(strip(sql_upper), Chars("WITH"))

\* The third check of validate_query: the statement is a SELECT query.
PrefixCheckFails(sql_upper) ==
    /\ ~startswith(strip(sql_upper), Chars("SELECT"))
    /\ ~startswith(strip(sql_upper), Chars("WITH"))

\* (mutant) validate_query with its second and third checks in the other order
validate_query_prefix_first(sql_text) ==
    LET sql_upper == upper(sql_text)
        found == {keyword \in FORBIDDEN_KEYWORDS : re_search_word(Chars(keyword), sql_upper)}
    IN IF found # {}
       THEN {[is_valid |-> FALSE, error |-> ForbiddenReason(keyword)] : keyword \in found}
       ELSE IF PrefixCheckFails(sql_upper)
       THEN {[is_valid |-> FALSE, error |-> NotSelectReason]}
       ELSE IF SelectStarCheckFails(sql_upper)
       THEN {[is_valid |-> FALSE, error |-> SelectStarReason]}
       ELSE {[is_valid |-> TRUE, error |-> None]}

\* The (is_valid, error) pairs validate_query(sql) can return.  FORBIDDEN_KEYWORDS is
\* a Python set, iterated in no fixed order: of several forbidden keywords in the
\* statement, any one may be the one the loop finds first.
validate_query(sql_text) ==
    LET sql_upper == upper(sql_text)
        found == {keyword \in FORBIDDEN_KEYWORDS : re_search_word(Chars(keyword), sql_upper)}
    IN IF found # {}
       THEN {[is_valid |-> FALSE, error |-> ForbiddenReason(keyword)] : keyword \in found}
       ELSE IF SelectStarCheckFails(sql_upper)
       THEN {[is_valid |-> FALSE, error |-> SelectStarReason]}
       ELSE IF PrefixCheckFails(sql_upper)
       THEN {[is_valid |-> FALSE, error |-> NotSelectReason]}
       ELSE {[is_valid |-> TRUE, error |-> None]}

-----------------------------------------------------------------------------
(* The validator on its own: statements are composed of fragments and      *)
(* handed to validate_query.                                               *)

Fragments ==
    { <<"S","e","l","e","c","t">>,      \* Select
      <<" ">>,
      <<" ","*">>,                      \* " *"
      <<" ","d","r","o","p">>,          \* " drop"
      <<"_","a","t">>,                  \* _at
      <<"l","i","m","i","t">>,          \* limit
      <<"W","i","t","h">>,              \* With
      <<"C","r","e","a","t","e">> }     \* Create

NotRun == [is_valid |-> FALSE, error |-> Some(<<"(validate_query has not run)">>)]

InitValidator ==
    /\ vsql = <<>>
    /\ vfrags = 0
    /\ vresult = NotRun

\* the caller composes the statement
ComposeStatement ==
    /\ vresult = NotRun
    /\ vfrags < MaxFrags
    /\ \E f \in Fragments : vsql' = vsql \o f
    /\ vfrags' = vfrags + 1
    /\ UNCHANGED <<vresult, executorVars, agentVars, plannerVars, optimizerVars, formatterVars, catalogVars,
                   batchVars, callVars, concurrentVars>>

\* validate_query(vsql)
Validate ==
    /\ vresult = NotRun
    /\ \E r \in validate_query(vsql) : vresult' = r
    /\ UNCHANGED <<vsql, vfrags, executorVars, agentVars, plannerVars, optimizerVars, formatterVars, catalogVars,
                   batchVars, callVars, concurrentVars>>

-----------------------------------------------------------------------------
(* query_executor.py: QueryResult and QueryExecutor.execute_query          *)

QueryResult(success, columns, rows, row_count, execution_time, error) ==
    [success |-> success, columns |-> columns, rows |-> rows, row_count |-> row_count,
     execution_time |-> execution_time, error |-> error]

\* What the store does with one statement: it answers (cursor.description and the
\* fetched rows), raises a sqlite3.Error, or something else raises an Exception.
\* cursor.description is None for a statement that produces no result set
\* (has_description = FALSE), and then no row is fetched.
RowsOf(ncols, nrows) == [i \in 1..nrows |-> [j \in 1..ncols |-> i * 10 + j]]
ColumnNames == << <<"t","o","t","a","l">>, <<"N","a","m","e">> >>
StoreAnswers ==
    {[kind |-> "answer", has_description |-> FALSE, description |-> <<>>, fetched |-> <<>>]}
    \cup {[kind |-> "answer", has_description |-> TRUE,
           description |-> SubSeq(ColumnNames, 1, ncols), fetched |-> RowsOf(ncols, nrows)] :
            ncols \in 1..2, nrows \in 0..2}
StoreErrorMessages == {"no such table: NonExistentTable"}
OtherErrorMessages == {"You can only execute one statement at a time."}
StoreFailures ==
    {[kind |-> "sqlite3.Error", message |-> m] : m \in StoreErrorMessages}
    \cup {[kind |-> "Exception", message |-> m] : m \in OtherErrorMessages}
StoreOutcomes == StoreAnswers \cup StoreFailures

\* The store behaviours met in the agent's sessions: every failure, and the answers
\* with as many rows as columns (none, one value, a two by two table).
SessionOutcomes ==
    {o \in StoreOutcomes : o.kind = "answer" => Len(o.fetched) = Len(o.description)}

\* A call either returns a value or raises.
Returned(value) == [raised |-> FALSE, value |-> value]
Raised(what) == [raised |-> TRUE, value |-> what]

\* (mutant) execute_query without the handler for the exceptions that are no
\* sqlite3.Error: they reach the caller
execute_query_store_errors_only(outcome, start_time, end_time) ==
    LET execution_time == end_time - start_time
    IN CASE outcome.kind = "answer" ->
              Returned(QueryResult(TRUE,
                                   IF outcome.has_description THEN outcome.description ELSE <<>>,
                                   outcome.fetched, Len(outcome.fetched), execution_time, None))
         [] outcome.kind = "sqlite3.Error" ->
              Returned(QueryResult(FALSE, <<>>, <<>>, 0, execution_time,
                                   Some(<<outcome.message>>)))
         [] outcome.kind = "Exception" -> Raised(outcome.message)

\* (mutant) execute_query taking row_count from cursor.rowcount, which is -1 for a
\* SELECT statement
execute_query_cursor_rowcount(outcome, start_time, end_time) ==
    LET execution_time == end_time - start_time
    IN CASE outcome.kind = "answer" ->
              Returned(QueryResult(TRUE,
                                   IF outcome.has_description THEN outcome.description ELSE <<>>,
                                   outcome.fetched, -1, execution_time, None))
         [] outcome.kind = "sqlite3.Error" ->
              Returned(QueryResult(FALSE, <<>>, <<>>, 0, execution_time,
                                   Some(<<outcome.message>>)))
         [] outcome.kind = "Exception" ->
              Returned(QueryResult(FALSE, <<>>, <<>>, 0, execution_time,
                                   Some(<<"Unexpected error: ", outcome.message>>)))

\* execute_query(sql) when the store behaves as `outcome` and the clock (time.time())
\* reads start_time before the statement and end_time when the result is built.
execute_query(outcome, start_time, end_time) ==
    LET execution_time == end_time - start_time
    IN CASE outcome.kind = "answer" ->
              LET columns == IF outcome.has_description THEN outcome.description ELSE <<>>
                  rows_as_tuples == outcome.fetched
              IN Returned(QueryResult(TRUE, columns, rows_as_tuples, Len(rows_as_tuples),
                                      execution_time, None))
         [] outcome.kind = "sqlite3.Error" ->
              Returned(QueryResult(FALSE, <<>>, <<>>, 0, execution_time,
                                   Some(<<outcome.message>>)))
         [] outcome.kind = "Exception" ->
              Returned(QueryResult(FALSE, <<>>, <<>>, 0, execution_time,
                                   Some(<<"Unexpected error: ", outcome.message>>)))

\* Two readings of the clock, the second not before the first.
ClockReadings == {t \in (0..MaxClock) \X (0..MaxClock) : t[1] <= t[2]}

\* The readings met in the agent's sessions: the clock is read from the start of
\* the statement on.
SessionReadings == {t \in ClockReadings : t[1] = 0}

-----------------------------------------------------------------------------
(* The executor on its own: a caller hands it statements.                  *)

Statement(words) ==
    IF words = <<>> THEN <<>>
    ELSE LET Join[i \in 1..Len(words)] ==
                 IF i = 1 THEN words[1] ELSE Join[i - 1] \o <<" ">> \o words[i]
         IN Join[Len(words)]

SelectA == Statement(<< <<"S","e","l","e","c","t">>, <<"a">> >>)
SelectStar == Statement(<< <<"S","E","L","E","C","T">>, <<"*">> >>)
SelectStarLimit == Statement(<< <<"s","e","l","e","c","t">>, <<"*">>, <<"l","i","m","i","t">>, <<"5">> >>)
DropT == Statement(<< <<"d","r","o","p">>, <<"t">> >>)
WithA == Statement(<< <<"W","i","t","h">>, <<"a">> >>)
ExplainA == Statement(<< <<"e","x","p","l","a","i","n">>, <<"a">> >>)

\* The statements a caller hands to the executor.
CallerStatements == {SelectA, SelectStar, SelectStarLimit, DropT, WithA, ExplainA}

NoCall == Raised("(execute_query has not been called)")
NoOutcome == [kind |-> "(none)"]

InitExecutor ==
    /\ xsql = <<>>
    /\ xoutcome = NoOutcome
    /\ xcall = NoCall

\* execute_query(s) called directly
Execute ==
    \E s \in CallerStatements,
       outcome \in StoreOutcomes, t \in ClockReadings :
        /\ xsql' = s
        /\ xoutcome' = outcome
        /\ xcall' = execute_query(outcome, t[1], t[2])
        /\ UNCHANGED <<validatorVars, agentVars, plannerVars, optimizerVars, formatterVars, catalogVars,
                   batchVars, callVars, concurrentVars>>

-----------------------------------------------------------------------------
(* sql_generator.py: SQLGenerator.build_query_from_plan                    *)

DEFAULT_LIMIT == 100

DecimalDigits == <<"0","1","2","3","4","5","6","7","8","9">>

\* str(n) for an integer n >= 0: its decimal digits
RECURSIVE IntToChars(_)
IntToChars(n) ==
    IF n < 10 THEN <<DecimalDigits[n + 1]>>
    ELSE IntToChars(n \div 10) \o <<DecimalDigits[(n % 10) + 1]>>

\* sep.join(parts)
RECURSIVE join(_, _)
join(sep, parts) ==
    IF parts = <<>> THEN <<>>
    ELSE IF Len(parts) = 1 THEN parts[1]
    ELSE parts[1] \o sep \o join(sep, Tail(parts))

QueryPlan(tables, columns, joins, filters, grouping, ordering, limit) ==
    [tables |-> tables, columns |-> columns, joins |-> joins, filters |-> filters,
     grouping |-> grouping, ordering |-> ordering, limit |-> limit]

\* Optional[int]
NoLimit == [is_none |-> TRUE, value |-> 0]
Limit(n) == [is_none |-> FALSE, value |-> n]

\* the truth value of an Optional[str]: None and the empty string are false
Truthy(optional_text) == ~optional_text.is_none /\ optional_text.text # <<>>

ValueError(message) == [type |-> "ValueError", message |-> message]

\* The parts of the statement build_query_from_plan composes, in order, and the
\* statement: the parts joined by newlines, with a semicolon.
QueryParts(plan_) ==
    LET columns_str == IF plan_.columns # <<>> THEN join(<<","," ">>, plan_.columns) ELSE <<"*">>
    IN << <<"S","E","L","E","C","T"," ">> \o columns_str, <<"F","R","O","M"," ">> \o plan_.tables[1] >>
       \o plan_.joins
       \o (IF plan_.filters # <<>>
           THEN << <<"W","H","E","R","E"," ">> \o join(<<" ","A","N","D"," ">>, plan_.filters) >> ELSE <<>>)
       \o (IF Truthy(plan_.grouping) THEN << <<"G","R","O","U","P"," ","B","Y"," ">> \o plan_.grouping.text >> ELSE <<>>)
       \o (IF Truthy(plan_.ordering) THEN << <<"O","R","D","E","R"," ","B","Y"," ">> \o plan_.ordering.text >> ELSE <<>>)
       \o (IF ~plan_.limit.is_none
           THEN << <<"L","I","M","I","T"," ">> \o IntToChars(plan_.limit.value) >>
           ELSE IF ~Truthy(plan_.grouping) /\ ~contains(upper(columns_str), Chars("COUNT"))
           THEN << <<"L","I","M","I","T"," ">> \o IntToChars(DEFAULT_LIMIT) >>
           ELSE <<>>)

ComposedQuery(plan_) == join(<<"\n">>, QueryParts(plan_)) \o <<";">>

\* (mutant) build_query_from_plan without the validation of the composed statement
build_query_from_plan_unvalidated(plan_) ==
    IF plan_.tables = <<>>
    THEN {Raised(ValueError(<<"Query plan must specify at least one table">>))}
    ELSE {Returned(ComposedQuery(plan_))}

\* What build_query_from_plan(plan) can do: return the statement, or raise.  (The
\* reason validate_query gives, and so the message raised, is one of several when
\* several forbidden keywords occur.)
build_query_from_plan(plan_) ==
    IF plan_.tables = <<>>
    THEN {Raised(ValueError(<<"Query plan must specify at least one table">>))}
    ELSE LET query == ComposedQuery(plan_)
         IN {IF verdict.is_valid
             THEN Returned(query)
             ELSE Raised(ValueError(<<"Generated query failed validation: ">> \o verdict.error.text)) :
                 verdict \in validate_query(query)}

-----------------------------------------------------------------------------
(* The query builder on its own: a caller drafts a plan and has it built.  *)

PlanTables == {<<>>, << <<"C","u","s","t","o","m","e","r">> >>}
PlanColumns ==
    {<<>>, << <<"N","a","m","e">> >>, << <<"C","o","u","n","t","r","y">> >>, << <<"c","o","u","n","t","(","*",")">> >>,
     << <<"N","a","m","e">>, <<"C","o","u","n","t","r","y">> >>}
PlanJoins == {<<>>, << <<"J","O","I","N"," ","I","n","v","o","i","c","e"," ","O","N"," ","a"," ","="," ","b">> >>}
PlanFilters == {<<>>, << <<"a"," ","="," ","1">> >>, << <<"a"," ","="," ","1">>, <<"r","e","p","l","a","c","e"," ","="," ","2">> >>}
PlanGroupings == {None, Some(<<>>), Some(<<"C","o","u","n","t","r","y">>)}
PlanOrderings == {None, Some(<<"N","a","m","e">>)}
PlanLimits == {NoLimit, Limit(0), Limit(5)}

\* The plans a caller hands to build_query_from_plan.
Plans ==
    {QueryPlan(tables, columns, joins, filters, grouping, ordering, limit) :
        tables \in PlanTables, columns \in PlanColumns, joins \in PlanJoins,
        filters \in PlanFilters, grouping \in PlanGroupings, ordering \in PlanOrderings,
        limit \in PlanLimits}

NoPlan == [pending |-> TRUE]
NotBuilt == [pending |-> TRUE]

InitPlanner ==
    /\ plan = NoPlan
    /\ built = NotBuilt

\* the caller drafts a plan
DraftPlan ==
    /\ plan = NoPlan
    /\ plan' \in Plans
    /\ UNCHANGED <<built, validatorVars, executorVars, agentVars, optimizerVars, formatterVars, catalogVars,
                   batchVars, callVars, concurrentVars>>

\* build_query_from_plan(plan)
BuildQuery ==
    /\ plan # NoPlan
    /\ built = NotBuilt
    /\ built' \in build_query_from_plan(plan)
    /\ UNCHANGED <<plan, validatorVars, executorVars, agentVars, optimizerVars, formatterVars, catalogVars,
                   batchVars, callVars, concurrentVars>>

-----------------------------------------------------------------------------
(* sql_generator.py: SQLGenerator.optimize_query                           *)

\* re.sub(r'\s+', ' ', s): every run of whitespace replaced by one space
RECURSIVE collapse_whitespace(_)
collapse_whitespace(s) ==
    IF s = <<>> THEN <<>>
    ELSE IF s[1] \in Whitespace
    THEN IF Len(s) > 1 /\ s[2] \in Whitespace
         THEN collapse_whitespace(Tail(s))
         ELSE <<" ">> \o collapse_whitespace(Tail(s))
    ELSE <<s[1]>> \o collapse_whitespace(Tail(s))

\* s.endswith(t)
endswith(s, t) == Len(t) <= Len(s) /\ MatchAt(s, t, Len(s) - Len(t) + 1)

\* s.rstrip(';')
RECURSIVE rstrip_semicolons(_)
rstrip_semicolons(s) ==
    IF s # <<>> /\ s[Len(s)] = ";" THEN rstrip_semicolons(SubSeq(s, 1, Len(s) - 1)) ELSE s

optimize_query(sql_text) ==
    LET stripped == strip(collapse_whitespace(sql_text))
        terminated == IF ~endswith(stripped, <<";">>) THEN stripped \o <<";">> ELSE stripped
    IN IF /\ ~contains(upper(terminated), Chars("LIMIT"))
          /\ ~contains(upper(terminated), Chars("GROUP BY"))
       THEN rstrip_semicolons(terminated) \o <<" ","L","I","M","I","T"," ">> \o IntToChars(DEFAULT_LIMIT) \o <<";">>
       ELSE terminated

-----------------------------------------------------------------------------
(* optimize_query on its own: texts are composed of fragments and handed   *)
(* to it, and its result is handed to it again.                            *)

OptimizerFragments ==
    { <<"S","e","l","e","c","t"," ","a">>, <<" ">>, <<";">>, <<"\n">>, <<" ","l","i","m","i","t"," ","5">>, <<" ","G","r","o","u","p"," "," ","b","y"," ","b">> }

InitOptimizer ==
    /\ osql = <<>>
    /\ oparts = 0
    /\ optimized = <<>>
    /\ reoptimized = <<>>

\* optimize_query returns no empty text: <<>> stands for "not yet called"
Optimized == optimized # <<>>

\* the caller composes the text
ComposeText ==
    /\ ~Optimized
    /\ oparts < MaxParts
    /\ \E f \in OptimizerFragments : osql' = osql \o f
    /\ oparts' = oparts + 1
    /\ UNCHANGED <<optimized, reoptimized, validatorVars, executorVars, agentVars, plannerVars,
                   formatterVars, catalogVars,
                   batchVars, callVars, concurrentVars>>

\* optimize_query(osql), and optimize_query of its result
Optimize ==
    /\ ~Optimized
    /\ optimized' = optimize_query(osql)
    /\ reoptimized' = optimize_query(optimize_query(osql))
    /\ UNCHANGED <<osql, oparts, validatorVars, executorVars, agentVars, plannerVars,
                   formatterVars, catalogVars,
                   batchVars, callVars, concurrentVars>>

-----------------------------------------------------------------------------
(* result_formatter.py: ResultFormatter.  A rendered text is the sequence  *)
(* of its lines (the code joins them with newlines); a line is a sequence  *)
(* of pieces: fixed phrases and, for names and values, their characters.   *)

CheckMark == "(check mark)"
CrossMark == "(cross mark)"

\* the larger / the smaller of two numbers
max(a, b) == IF a >= b THEN a ELSE b
min(a, b) == IF a <= b THEN a ELSE b

\* s.ljust(width)
ljust(s, width) == s \o [i \in 1..(width - Len(s)) |-> " "]

\* f"{result.error}" for an Optional[str]
ErrorText(error) == IF error.is_none THEN <<"None">> ELSE error.text

_format_error(query_result) ==
    << <<CrossMark, " Query failed: ">> \o ErrorText(query_result.error) >>

_format_empty_result(asked) ==
    << <<CheckMark, " Query executed successfully, but returned no results.">>,
       <<>>,
       <<"This could mean:">>,
       <<"- No data matches the criteria">>,
       <<"- The condition excludes all rows">> >>

_format_single_value(query_result, asked) ==
    LET value == query_result.rows[1][1]
        column == lower(query_result.columns[1])
        subject == IF asked.how_many.is_none THEN <<"result(s)">> ELSE asked.how_many.text
    IN IF contains(column, <<"c","o","u","n","t">>)
       THEN << <<CheckMark, " There are **">> \o IntToChars(value) \o <<" ">> \o subject \o <<"**.">> >>
       ELSE IF contains(column, <<"s","u","m">>) \/ contains(column, <<"t","o","t","a","l">>)
       THEN << <<CheckMark, " The total is **">> \o IntToChars(value) \o <<"**.">> >>
       ELSE IF contains(column, <<"a","v","g">>) \/ contains(column, <<"a","v","e","r","a","g","e">>)
       THEN << <<CheckMark, " The average is **">> \o IntToChars(value) \o <<"**.">> >>
       ELSE << <<CheckMark, " The answer is **">> \o IntToChars(value) \o <<"**.">> >>

_format_list(query_result) ==
    LET column == query_result.columns[1]
        values == [i \in 1..Len(query_result.rows) |-> query_result.rows[i][1]]
    IN << <<CheckMark, " Here are the **">> \o IntToChars(Len(values)) \o <<" ">> \o column
              \o <<"s** found:">>,
          <<>> >>
       \o [i \in 1..Len(values) |-> IntToChars(i) \o <<".", " ">> \o IntToChars(values[i])]

\* the width of column i: the longest of its name and its values, at most 50
RECURSIVE LongestValue(_, _, _)
LongestValue(rows, i, widest) ==
    IF rows = <<>> THEN widest
    ELSE LongestValue(Tail(rows), i, max(widest, Len(IntToChars(rows[1][i]))))
ColumnWidth(query_result, i) ==
    min(LongestValue(query_result.rows, i, Len(query_result.columns[i])), 50)

_format_table(query_result) ==
    LET col_widths == [i \in 1..Len(query_result.columns) |-> ColumnWidth(query_result, i)]
        header == join(<<" ","|"," ">>,
                       [i \in 1..Len(query_result.columns) |->
                           ljust(query_result.columns[i], col_widths[i])])
        RowLine(row) ==
            join(<<" ","|"," ">>,
                 [i \in 1..min(Len(row), Len(col_widths)) |->
                     SubSeq(ljust(IntToChars(row[i]), col_widths[i]), 1, col_widths[i])])
    IN << <<CheckMark, " Found **">> \o IntToChars(query_result.row_count) \o <<" results**:">>,
          <<>>,
          header,
          [i \in 1..Len(header) |-> "-"] >>
       \o [k \in 1..Len(query_result.rows) |-> RowLine(query_result.rows[k])]

\* (mutant) the trailing note citing the number of rows, not the number of rows left
_format_summary_note_total(query_result) ==
    LET sample_result ==
            QueryResult(TRUE, query_result.columns,
                        SubSeq(query_result.rows, 1, min(10, Len(query_result.rows))),
                        10, query_result.execution_time, None)
    IN << <<CheckMark, " Found ">> \o IntToChars(query_result.row_count) \o <<" result(s).">>,
          <<>>,
          <<"Showing first 10 rows:">>,
          <<>> >>
       \o _format_table(sample_result)
       \o << <<>>,
              <<"... and ">> \o IntToChars(query_result.row_count) \o <<" more rows.">> >>

_format_summary(query_result) ==
    LET sample_result ==
            QueryResult(TRUE, query_result.columns,
                        SubSeq(query_result.rows, 1, min(10, Len(query_result.rows))),
                        10, query_result.execution_time, None)
    IN << <<CheckMark, " Found ">> \o IntToChars(query_result.row_count) \o <<" result(s).">>,
          <<>>,
          <<"Showing first 10 rows:">>,
          <<>> >>
       \o _format_table(sample_result)
       \o << <<>>,
              <<"... and ">> \o IntToChars(query_result.row_count - 10) \o <<" more rows.">> >>

\* (mutant) the table chosen before the single-column list
format_result_table_first(query_result, asked) ==
    IF ~query_result.success THEN _format_error(query_result)
    ELSE IF query_result.row_count = 0 THEN _format_empty_result(asked)
    ELSE IF query_result.row_count = 1 /\ Len(query_result.columns) = 1
    THEN _format_single_value(query_result, asked)
    ELSE IF query_result.row_count <= 20 THEN _format_table(query_result)
    ELSE IF Len(query_result.columns) = 1 THEN _format_list(query_result)
    ELSE _format_summary(query_result)

format_result(query_result, asked) ==
    IF ~query_result.success THEN _format_error(query_result)
    ELSE IF query_result.row_count = 0 THEN _format_empty_result(asked)
    ELSE IF query_result.row_count = 1 /\ Len(query_result.columns) = 1
    THEN _format_single_value(query_result, asked)
    ELSE IF Len(query_result.columns) = 1 THEN _format_list(query_result)
    ELSE IF query_result.row_count <= 20 THEN _format_table(query_result)
    ELSE _format_summary(query_result)

\* One rendered step: the branch glyph, the description, the detail lines.
format_reasoning_trace(steps) ==
    [i \in 1..Len(steps) |->
        [prefix |-> IF i = Len(steps) THEN "+-- " ELSE "|-- ",
         description |-> steps[i].description,
         details |-> steps[i].details]]

-----------------------------------------------------------------------------
(* agent.py: IntelligentAgent                                              *)

max_retries == 3

ReasoningStep(step_number, description, action, details) ==
    [step_number |-> step_number, description |-> description, action |-> action,
     details |-> details]

\* (mutant) the step numbered from 0: step_number = len(self.reasoning_steps)
_add_reasoning_step_from_zero(steps, action, description, details) ==
    Append(steps, ReasoningStep(Len(steps), description, action, details))

_add_reasoning_step(steps, action, description, details) ==
    Append(steps, ReasoningStep(Len(steps) + 1, description, action, details))

\* (mutant) answer_question without the reset of the log
reset_reasoning_steps_missing(steps) == steps

\* self.reasoning_steps = [] at the start of answer_question
reset_reasoning_steps(steps) == <<>>

\* ---- the LLM backends ----

NoModel == "None"

candidates == <<"gemini-1.5-flash", "gemini-1.5-pro">>

\* Number of generate_content invocations one _call_llm can make.
MaxInvocations == 1 + Len(candidates)

\* For one _call_llm: whether the k-th generate_content invocation responds.
BackendAnswers == [1..MaxInvocations -> BOOLEAN]

\* The fallback loop of _call_llm from candidate i on.  st.model is self.model,
\* st.invoked the backends invoked so far in this call.
RECURSIVE FallbackChain(_, _, _)
FallbackChain(i, st, answers) ==
    IF i > Len(candidates)
    THEN [ok |-> FALSE, model |-> st.model, invoked |-> st.invoked,
          steps |-> _add_reasoning_step(st.steps, "error", "All models failed",
                                        Some(<<"(last error)">>))]
    ELSE LET model_name == candidates[i]
         IN IF model_name = st.model
            THEN FallbackChain(i + 1, st, answers)
            ELSE LET invoked == Append(st.invoked, model_name)
                 IN IF answers[Len(invoked)]
                    THEN [ok |-> TRUE, model |-> model_name, invoked |-> invoked,
                          steps |-> _add_reasoning_step(st.steps, "warning", "Model Fallback",
                                        Some(<<"Switched to ", model_name, " after previous failure">>))]
                    ELSE FallbackChain(i + 1, [st EXCEPT !.model = model_name,
                                                         !.invoked = invoked], answers)

\* (mutant) _call_llm without the fallback chain: when the current backend fails the
\* call gives up at once
_call_llm_no_fallback(current_model, steps, answers) ==
    LET first == IF current_model = NoModel THEN candidates[1] ELSE current_model
    IN [ok |-> answers[1], model |-> first, invoked |-> <<first>>,
        steps |-> IF answers[1] THEN steps
                  ELSE _add_reasoning_step(steps, "error", "All models failed",
                                           Some(<<"(last error)">>))]

\* _call_llm(prompt) with self.model = current_model and the log = steps:
\* ok (a response text was returned) or not (the last error was raised), the new
\* self.model, the new log and the backends invoked, in order.
_call_llm(current_model, steps, answers) ==
    LET first == IF current_model = NoModel THEN candidates[1] ELSE current_model
    IN IF answers[1]
       THEN [ok |-> TRUE, model |-> first, invoked |-> <<first>>, steps |-> steps]
       ELSE FallbackChain(1, [model |-> first, invoked |-> <<first>>, steps |-> steps],
                          answers)

\* ---- the proposer's responses ----

\* The statements the proposer answers with.
ProposerStatements == {SelectA, SelectStarLimit, DropT}

\* A response text, by what the agent reads from it: the statement _extract_sql
\* finds in it (if any) and the number of REASONING/STRATEGY lines.  The responses
\* are: a text with no statement in it, a structured response (one line of
\* reasoning) for each statement, and a bare statement.
LLMResponses ==
    {[has_sql |-> FALSE, sql |-> <<>>, plan_lines |-> 0]}
    \cup {[has_sql |-> TRUE, sql |-> s, plan_lines |-> 1] : s \in ProposerStatements}
    \cup {[has_sql |-> TRUE, sql |-> SelectA, plan_lines |-> 0]}

_extract_sql(llm_response) ==
    IF llm_response.has_sql
    THEN Returned(llm_response.sql)
    ELSE Raised("ValueError: Could not extract SQL from LLM response")

RECURSIVE _parse_llm_reasoning(_, _)
_parse_llm_reasoning(steps, lines) ==
    IF lines = 0 THEN steps
    ELSE _parse_llm_reasoning(
             _add_reasoning_step(steps, "plan", "(line of the response)", None), lines - 1)

\* ---- questions ----

\* A question, by what _handle_meta_query reads from it: whether it holds a
\* table-listing phrase, whether it holds a schema/describe/structure keyword, and,
\* for each table of get_all_tables() whose name occurs in it (in that order),
\* whether the schema cache holds the table; and by what _format_single_value reads
\* from it: the subject its patterns extract after "how many" (None when the
\* question holds no "how many" or no pattern matches).
Questions ==
    {[text |-> "What tables exist?", list_phrase |-> TRUE, schema_word |-> FALSE,
      mentions |-> <<>>, how_many |-> None],
     [text |-> "Describe the Artist table", list_phrase |-> FALSE, schema_word |-> TRUE,
      mentions |-> <<TRUE>>, how_many |-> None],
     [text |-> "Describe the orders", list_phrase |-> FALSE, schema_word |-> TRUE,
      mentions |-> <<>>, how_many |-> None],
     [text |-> "Show the structure of NewTable", list_phrase |-> FALSE, schema_word |-> TRUE,
      mentions |-> <<FALSE>>, how_many |-> None],
     [text |-> "How many artists are there?", list_phrase |-> FALSE, schema_word |-> FALSE,
      mentions |-> <<TRUE>>, how_many |-> Some(<<"artists">>)]}

NoQuestion ==
    [text |-> "", list_phrase |-> FALSE, schema_word |-> FALSE, mentions |-> <<>>,
     how_many |-> None]

MetaResponse(steps, answer, meta_sql) ==
    [success |-> TRUE, answer |-> answer, sql |-> meta_sql,
     reasoning |-> format_reasoning_trace(steps), is_meta |-> TRUE]

\* The loop of _handle_meta_query over the tables named in the question.
RECURSIVE MetaSchemaLoop(_, _, _)
MetaSchemaLoop(q, i, steps) ==
    IF i > Len(q.mentions) THEN [is_meta |-> FALSE, steps |-> steps, response |-> None]
    ELSE LET logged == _add_reasoning_step(steps, "meta", "Detected meta-query: show schema",
                                           Some(<<"Using PRAGMA to get table structure">>))
         IN IF q.mentions[i]
            THEN [is_meta |-> TRUE, steps |-> logged,
                  response |-> MetaResponse(logged, <<"Schema for table">>,
                                            <<"PRAGMA table_info(table)">>)]
            ELSE MetaSchemaLoop(q, i + 1, logged)

_handle_meta_query(q, steps) ==
    IF q.list_phrase
    THEN LET logged == _add_reasoning_step(steps, "meta", "Detected meta-query: list tables",
                                           Some(<<"Using schema explorer to get table list">>))
         IN [is_meta |-> TRUE, steps |-> logged,
             response |-> MetaResponse(logged, <<"Database contains tables">>,
                                       <<"SELECT name FROM sqlite_master WHERE type=\"table\"">>)]
    ELSE IF q.schema_word
    THEN MetaSchemaLoop(q, 1, steps)
    ELSE [is_meta |-> FALSE, steps |-> steps, response |-> None]

_get_schema_context(steps) ==
    _add_reasoning_step(steps, "explore", "Checking schema...",
                        Some(<<"Found relevant tables in schema context">>))

\* ---- answer_question ----

NoResult == QueryResult(FALSE, <<>>, <<>>, 0, 0, Some(<<"(no execution yet)">>))
NoResponse == [pending |-> TRUE]
NoText == [has_sql |-> FALSE, sql |-> <<>>, plan_lines |-> 0]

InitAgent ==
    /\ pc = "idle"
    /\ question = NoQuestion
    /\ model \in {NoModel, candidates[1]}
    /\ reasoning_steps = <<>>
    /\ reasoning_text = NoText
    /\ sql = <<>>
    /\ retry_sql = <<>>
    /\ attempt = 0
    /\ result = NoResult
    /\ validations = <<>>
    /\ executions = <<>>
    /\ corrections = 0
    /\ recoveries = <<>>
    /\ response = NoResponse

\* answer_question(q), up to the request to the proposer: the log is reset, the
\* question analysed, a meta-query answered from the catalog, otherwise the schema
\* context fetched and the generation step logged.
AnswerQuestion ==
    /\ pc \in {"idle", "done", "raised"}
    /\ \E q \in Questions :
        LET analysed == _add_reasoning_step(reset_reasoning_steps(reasoning_steps),
                                            "analyze", "Analyzing user question",
                                            Some(<<"Question: ", q.text>>))
            meta == _handle_meta_query(q, analysed)
        IN /\ question' = q
           /\ IF meta.is_meta
              THEN /\ reasoning_steps' = meta.steps
                   /\ response' = meta.response
                   /\ pc' = "done"
              ELSE /\ reasoning_steps' =
                        _add_reasoning_step(_get_schema_context(meta.steps), "generate",
                            "Generating query...",
                            Some(<<"Formulating SQL based on schema and intent">>))
                   /\ response' = NoResponse
                   /\ pc' = "generate"
    /\ sql' = <<>>
    /\ retry_sql' = <<>>
    /\ reasoning_text' = NoText
    /\ attempt' = 0
    /\ result' = NoResult
    /\ validations' = <<>>
    /\ executions' = <<>>
    /\ corrections' = 0
    /\ recoveries' = <<>>
    /\ UNCHANGED <<model, unitVars>>

\* (mutant) step 5 without its return: an invalid candidate is executed all the same
ValidationGate_no_return(is_valid) == "execute"

\* Step 5 of answer_question: an invalid candidate ends the question ("done"), a
\* valid one goes on to _execute_with_retry ("execute").
ValidationGate(is_valid) == IF ~is_valid THEN "done" ELSE "execute"

ValidationFailure(error, failed_sql, steps) ==
    [success |-> FALSE, error |-> error, sql |-> failed_sql,
     reasoning |-> format_reasoning_trace(steps),
     answer |-> <<"Generated SQL failed safety validation: ">> \o error.text]

\* _generate_sql_with_reasoning from the call to the proposer on, then step 5 of
\* answer_question: the candidate is validated; an invalid one ends the question.
\* (mutant) the try block with the backend call outside it: only a response with no
\* statement in it is taken for a failure
ProposalFailed_extraction_only(call, extracted) == extracted.raised

\* The try block of _generate_sql_with_reasoning raises: _call_llm raised (every
\* backend failed) or _extract_sql raised (no statement in the response).
ProposalFailed(call, extracted) == ~call.ok \/ extracted.raised

GenerateSQL ==
    /\ pc = "generate"
    /\ \E answers \in BackendAnswers, text \in LLMResponses :
        LET call == _call_llm(model, reasoning_steps, answers)
            extracted == _extract_sql(text)
        IN /\ model' = call.model
           /\ IF ProposalFailed(call, extracted)
              THEN /\ reasoning_steps' =
                        _add_reasoning_step(call.steps, "error", "LLM generation failed",
                                            Some(<<"(the error)">>))
                   /\ pc' = "raised"
                   /\ response' = Raised("answer_question raised the proposer's error")
                   /\ UNCHANGED <<sql, retry_sql, reasoning_text, validations>>
              ELSE LET parsed == _parse_llm_reasoning(call.steps, text.plan_lines)
                   IN /\ sql' = extracted.value
                      /\ reasoning_text' = text
                      /\ \E verdict \in validate_query(extracted.value) :
                          /\ validations' = Append(validations,
                                 [sql |-> extracted.value, is_valid |-> verdict.is_valid])
                          /\ IF ValidationGate(verdict.is_valid) = "done"
                             THEN LET logged == _add_reasoning_step(parsed, "validate",
                                                    "SQL validation failed", verdict.error)
                                  IN /\ reasoning_steps' = logged
                                     /\ response' = ValidationFailure(verdict.error,
                                                        extracted.value, logged)
                                     /\ pc' = "done"
                                     /\ UNCHANGED retry_sql
                             ELSE /\ reasoning_steps' = parsed
                                  /\ response' = NoResponse
                                  /\ retry_sql' = extracted.value
                                  /\ pc' = "execute"
    /\ UNCHANGED <<question, attempt, result, executions, corrections, recoveries, unitVars>>

\* (mutant) the loop without the return on success: it asks for a correction while
\* passes remain
LoopControl_no_return_on_success(success, attempt_no) ==
    IF attempt_no < max_retries - 1 THEN "recover"
    ELSE IF success THEN "success" ELSE "exhausted"

\* (mutant) the loop over range(max_retries - 1): one pass short
LoopControl_one_pass_short(success, attempt_no) ==
    IF success THEN "success"
    ELSE IF attempt_no < max_retries - 2 THEN "recover"
    ELSE "exhausted"

\* (mutant) the loop without the test of the budget: a correction is requested after
\* every failure
LoopControl_never_exhausted(success, attempt_no) ==
    IF success THEN "success" ELSE "recover"

\* What the loop of _execute_with_retry does after the execution of pass attempt_no
\* (0-based): "success" (log it, return the result), "recover" (log the failure,
\* request a correction, next pass) or "exhausted" (log it; the range is used up and
\* the last result returned).
LoopControl(success, attempt_no) ==
    IF success THEN "success"
    ELSE IF attempt_no < max_retries - 1 THEN "recover"
    ELSE "exhausted"

\* One pass of the loop of _execute_with_retry, up to the request for a correction.
ExecuteAttempt ==
    /\ pc = "execute"
    /\ \E outcome \in SessionOutcomes, t \in SessionReadings :
        LET logged == _add_reasoning_step(reasoning_steps, "execute",
                          "Executing query (attempt " \o ToString(attempt + 1) \o "/"
                              \o ToString(max_retries) \o ")",
                          Some(retry_sql))
            call == execute_query(outcome, t[1], t[2])
        IN /\ executions' = Append(executions,
                  [sql |-> retry_sql, success |-> ~call.raised /\ call.value.success])
           /\ IF call.raised
              THEN /\ pc' = "raised"
                   /\ response' = Raised("answer_question raised the executor's error")
                   /\ reasoning_steps' = logged
                   /\ UNCHANGED result
              ELSE /\ result' = call.value
                   /\ UNCHANGED response
                   /\ IF LoopControl(call.value.success, attempt) = "success"
                      THEN /\ reasoning_steps' =
                                _add_reasoning_step(logged, "success",
                                    "Query executed successfully", Some(<<"Execution time">>))
                           /\ pc' = "synthesize"
                      ELSE IF LoopControl(call.value.success, attempt) = "recover"
                      THEN /\ reasoning_steps' =
                                _add_reasoning_step(logged, "error", "Query failed",
                                    Some(<<"Attempting to generate corrected query">>))
                           /\ pc' = "recover"
                      ELSE /\ reasoning_steps' =
                                _add_reasoning_step(logged, "error", "Max retries reached",
                                    call.value.error)
                           /\ pc' = "synthesize"
    /\ UNCHANGED <<question, model, sql, retry_sql, reasoning_text, attempt, validations,
                   corrections, recoveries, unitVars>>

\* (mutant) _recover_from_error without its try/except: a failed correction request
\* reaches the caller
_recover_from_error_no_handler(failed_sql, call, extracted) ==
    IF call.ok /\ ~extracted.raised
    THEN [raised |-> FALSE, value |-> extracted.value,
          steps |-> _add_reasoning_step(call.steps, "recover", "Generated corrected query",
                                        Some(extracted.value))]
    ELSE [raised |-> TRUE, value |-> failed_sql, steps |-> call.steps]

\* _recover_from_error(failed_sql, ...) when the call to the proposer did `call` and
\* the extraction of the statement from its response did `extracted`: the statement
\* returned and the log.  Whatever is raised inside the try block is swallowed and
\* the failed statement returned.
_recover_from_error(failed_sql, call, extracted) ==
    IF call.ok /\ ~extracted.raised
    THEN [raised |-> FALSE, value |-> extracted.value,
          steps |-> _add_reasoning_step(call.steps, "recover", "Generated corrected query",
                                        Some(extracted.value))]
    ELSE [raised |-> FALSE, value |-> failed_sql, steps |-> call.steps]

\* _recover_from_error, and the loop of _execute_with_retry going to its next pass.
Recover ==
    /\ pc = "recover"
    /\ \E answers \in BackendAnswers, text \in LLMResponses :
        LET call == _call_llm(model, reasoning_steps, answers)
            extracted == _extract_sql(text)
            recovery == _recover_from_error(retry_sql, call, extracted)
        IN /\ model' = call.model
           /\ reasoning_steps' = recovery.steps
           /\ recoveries' = Append(recoveries,
                  [failed_sql |-> retry_sql,
                   backend_ok |-> call.ok,
                   extracted_ok |-> call.ok /\ ~extracted.raised])
           /\ IF recovery.raised
              THEN /\ pc' = "raised"
                   /\ response' = Raised("answer_question raised the recovery's error")
                   /\ UNCHANGED <<retry_sql, attempt>>
              ELSE /\ retry_sql' = recovery.value
                   /\ attempt' = attempt + 1
                   /\ pc' = "execute"
                   /\ UNCHANGED response
    /\ corrections' = corrections + 1
    /\ UNCHANGED <<question, sql, reasoning_text, result, validations, executions, unitVars>>

\* (mutant) the dict with 'success': True, whatever the execution did
ExecutionResponse_always_success(query_result, answer, initial_sql, text, steps) ==
    [success |-> TRUE,
     answer |-> answer,
     sql |-> initial_sql,
     reasoning |-> text,
     reasoning_steps |-> format_reasoning_trace(steps),
     execution_time |-> query_result.execution_time,
     row_count |-> IF query_result.success THEN query_result.row_count ELSE 0]

\* The dict answer_question returns after _execute_with_retry and _synthesize_answer.
\* 'sql' is answer_question's local sql: the candidate that was validated.
ExecutionResponse(query_result, answer, initial_sql, text, steps) ==
    [success |-> query_result.success,
     answer |-> answer,
     sql |-> initial_sql,
     reasoning |-> text,
     reasoning_steps |-> format_reasoning_trace(steps),
     execution_time |-> query_result.execution_time,
     row_count |-> IF query_result.success THEN query_result.row_count ELSE 0]

\* _synthesize_answer and the return of answer_question.
Synthesize ==
    /\ pc = "synthesize"
    /\ \E answers \in BackendAnswers :
        LET logged == _add_reasoning_step(reasoning_steps, "synthesize",
                          "interpreting results with LLM", Some(<<"Converting rows">>))
            data_preview == format_result(result, question)
            call == _call_llm(model, logged, answers)
            answer == IF call.ok THEN <<"(the LLM's answer)">> ELSE data_preview
        IN /\ model' = call.model
           /\ reasoning_steps' = call.steps
           /\ response' = ExecutionResponse(result, answer, sql, reasoning_text, call.steps)
    /\ pc' = "done"
    /\ UNCHANGED <<question, sql, retry_sql, reasoning_text, attempt, result, validations,
                   executions, corrections, recoveries, unitVars>>

-----------------------------------------------------------------------------
(* The formatter on its own: a caller hands it results of the executor.    *)

\* The column lists and the numbers of rows of the results handed to it.
FormatterColumns ==
    { << <<"t","o","t","a","l">> >>, << <<"N","a","m","e">> >>, << <<"t","r","a","c","k","_","c","o","u","n","t">> >>, << <<"A","v","g","P","r","i","c","e">> >>,
      << <<"N","a","m","e">>, <<"t","o","t","a","l">> >>,
      << <<"N","a","m","e">>, <<"t","o","t","a","l">>, <<"t","r","a","c","k","_","c","o","u","n","t">> >> }
FormatterRowCounts == {0, 1, 2, 20, 21, 25}

\* What the store answers in these calls, and the results execute_query makes of it
\* and of the store's failures.
FormatterAnswers ==
    {[kind |-> "answer", has_description |-> FALSE, description |-> <<>>, fetched |-> <<>>]}
    \cup {[kind |-> "answer", has_description |-> TRUE, description |-> columns,
           fetched |-> RowsOf(Len(columns), nrows)] :
            columns \in FormatterColumns, nrows \in FormatterRowCounts}
FormatterResults ==
    {execute_query(outcome, t[1], t[2]).value :
        outcome \in FormatterAnswers \cup StoreFailures, t \in ClockReadings}

\* The questions passed along: none (the default ""), or a "how many" question.
FormatterQuestions ==
    {NoQuestion} \cup {q \in Questions : ~q.how_many.is_none}

NoRendering == [pending |-> TRUE]

InitFormatter ==
    /\ fresult = [pending |-> TRUE]
    /\ ftext = NoRendering

Formatted == ftext # NoRendering

\* a result comes back from the executor
ProduceResult ==
    /\ fresult = [pending |-> TRUE]
    /\ fresult' \in FormatterResults
    /\ UNCHANGED <<ftext, validatorVars, executorVars, agentVars, plannerVars, optimizerVars, catalogVars,
                   batchVars, callVars, concurrentVars>>

\* format_result(fresult, q)
Format ==
    /\ fresult # [pending |-> TRUE]
    /\ ~Formatted
    /\ \E q \in FormatterQuestions :
          ftext' = [pending |-> FALSE, question |-> q, text |-> format_result(fresult, q)]
    /\ UNCHANGED <<fresult, validatorVars, executorVars, agentVars, plannerVars, optimizerVars, catalogVars,
                   batchVars, callVars, concurrentVars>>

-----------------------------------------------------------------------------
(* schema_explorer.py: SchemaExplorer, and the store it introspects.       *)

\* Most rows a table of the store holds.
MaxRows == 1

\* The tables that can exist in the store, by name, in the order of their names
\* (the order of ORDER BY name and of sorted()).
NameOrder == <<"Album", "Artist", "Track">>
TableUniverse == Range(NameOrder)

\* What PRAGMA table_info(name) returns: rows (cid, name, type, notnull, dflt_value,
\* pk) in the order of declaration.
PragmaTableInfo(name) ==
    CASE name = "Album"  -> << <<0, "AlbumId", "INTEGER", 1, None, 1>>,
                               <<1, "Title", "NVARCHAR(160)", 1, None, 0>>,
                               <<2, "ArtistId", "INTEGER", 1, None, 0>> >>
      [] name = "Artist" -> << <<0, "ArtistId", "INTEGER", 1, None, 1>>,
                               <<1, "Name", "NVARCHAR(120)", 0, None, 0>> >>
      [] name = "Track"  -> << <<0, "TrackId", "INTEGER", 1, None, 1>>,
                               <<1, "AlbumId", "INTEGER", 0, None, 0>> >>

\* What PRAGMA foreign_key_list(name) returns: rows (id, seq, table, from, to).
PragmaForeignKeyList(name) ==
    CASE name = "Album"  -> << <<0, 0, "Artist", "ArtistId", "ArtistId">> >>
      [] name = "Artist" -> <<>>
      [] name = "Track"  -> << <<0, 0, "Album", "AlbumId", "AlbumId">> >>

ColumnInfo(name, type, not_null, default_value, is_primary_key) ==
    [name |-> name, type |-> type, not_null |-> not_null, default_value |-> default_value,
     is_primary_key |-> is_primary_key]
ForeignKey(from_table, from_column, to_table, to_column) ==
    [from_table |-> from_table, from_column |-> from_column, to_table |-> to_table,
     to_column |-> to_column]
TableInfo(name, columns, foreign_keys, row_count) ==
    [name |-> name, columns |-> columns, foreign_keys |-> foreign_keys, row_count |-> row_count]

\* bool(n) of an integer
bool(n) == n # 0

\* the names of the tables of a store
TableNames(tables) == {tables[i].name : i \in 1..Len(tables)}

\* the names of a set, sorted
SortedNames(names) ==
    LET Present(n) == n \in names IN SelectSeq(NameOrder, Present)

\* the arrangements of the names of a set in a list
Arrangements(names) ==
    {listing \in [1..Cardinality(names) -> names] : Range(listing) = names}

\* (mutant) the query of get_all_tables without ORDER BY name: the store returns the
\* rows in an order of its own
get_all_tables_unordered(tables) == Arrangements(TableNames(tables))

\* The lists get_all_tables() can return when the store holds `tables`: it queries
\* the store each time it is called (sqlite_master, ORDER BY name).
get_all_tables(tables) == {SortedNames(TableNames(tables))}

\* _get_table_info(table_name) when the store holds `tables`
_get_table_info(tables, table_name) ==
    LET rows == PragmaTableInfo(table_name)
        fk_rows == PragmaForeignKeyList(table_name)
        entry == CHOOSE i \in 1..Len(tables) : tables[i].name = table_name
    IN TableInfo(table_name,
                 [i \in 1..Len(rows) |->
                     ColumnInfo(rows[i][2], rows[i][3], bool(rows[i][4]), rows[i][5],
                                bool(rows[i][6]))],
                 [i \in 1..Len(fk_rows) |->
                     ForeignKey(table_name, fk_rows[i][4], fk_rows[i][3], fk_rows[i][5])],
                 tables[entry].row_count)

\* schema_cache is a dict: its items in the order of insertion.
\* _load_schema: the cache filled for the tables of one listing, in its order.
_load_schema(tables, listing) ==
    [i \in 1..Len(listing) |-> _get_table_info(tables, listing[i])]

\* schema_cache.keys()
CacheKeys(schema_cache) == {schema_cache[i].name : i \in 1..Len(schema_cache)}

\* get_table_info(table_name): schema_cache.get(table_name)
get_table_info(schema_cache, table_name) ==
    IF table_name \in CacheKeys(schema_cache)
    THEN [is_none |-> FALSE,
          info |-> schema_cache[CHOOSE i \in 1..Len(schema_cache) :
                                    schema_cache[i].name = table_name]]
    ELSE [is_none |-> TRUE, info |-> <<>>]

\* sorted(schema_cache.items()): the items in the order of their keys
SortedItems(schema_cache) ==
    LET keys == SortedNames(CacheKeys(schema_cache))
    IN [i \in 1..Len(keys) |-> get_table_info(schema_cache, keys[i]).info]

\* get_relationships(table_name)
get_relationships(schema_cache, table_name) ==
    LET own == get_table_info(schema_cache, table_name)
        Incoming(i) ==
            IF schema_cache[i].name # table_name
            THEN LET Refers(fk) == fk.to_table = table_name
                 IN SelectSeq(schema_cache[i].foreign_keys, Refers)
            ELSE <<>>
        Collect[i \in 0..Len(schema_cache)] ==
            IF i = 0 THEN <<>> ELSE Collect[i - 1] \o Incoming(i)
    IN [outgoing |-> IF own.is_none THEN <<>> ELSE own.info.foreign_keys,
        incoming |-> Collect[Len(schema_cache)]]

\* The lines of get_compact_schema() for one table.
CompactLines(table_info) ==
    LET ColStr(col) ==
            join(<<" ">>,
                 << <<col.name>>, <<col.type>> >>
                 \o (IF col.is_primary_key THEN << <<"PK">> >> ELSE <<>>)
                 \o (IF col.not_null /\ ~col.is_primary_key THEN << <<"NOT NULL">> >> ELSE <<>>))
    IN << <<table_info.name, " (">> \o IntToChars(table_info.row_count) \o <<" rows):">>,
          <<"  ">> \o join(<<", ">>, [i \in 1..Len(table_info.columns) |->
                                        ColStr(table_info.columns[i])]) >>
       \o [i \in 1..Len(table_info.foreign_keys) |->
              <<"  ", table_info.foreign_keys[i].from_column, " -> ",
                table_info.foreign_keys[i].to_table, ".",
                table_info.foreign_keys[i].to_column>>]
       \o << <<>> >>

\* get_compact_schema(): the text as the sequence of its lines
get_compact_schema(schema_cache) ==
    LET items == SortedItems(schema_cache)
        Lines[i \in 0..Len(items)] ==
            IF i = 0 THEN <<>> ELSE Lines[i - 1] \o CompactLines(items[i])
    IN Lines[Len(items)]

-----------------------------------------------------------------------------
(* The explorer and its store: the store changes, explorers are built.     *)

NoExplorer == [built |-> FALSE, schema_cache |-> <<>>]
NoSnapshot == [taken |-> FALSE]
NoBefore == [tables |-> <<>>, schema_cache |-> <<>>, compact |-> <<>>]

InitCatalog ==
    /\ store = <<>>
    /\ explorer = NoExplorer
    /\ snapshot = NoSnapshot

others == <<validatorVars, executorVars, agentVars, plannerVars, optimizerVars, formatterVars>>

\* CREATE TABLE
CreateTable ==
    /\ \E name \in TableUniverse \ TableNames(store) :
          store' = Append(store, [name |-> name, row_count |-> 0])
    /\ UNCHANGED <<explorer, snapshot, others, batchVars, callVars, concurrentVars>>

\* DROP TABLE
DropTable ==
    /\ \E i \in 1..Len(store) :
          store' = SubSeq(store, 1, i - 1) \o SubSeq(store, i + 1, Len(store))
    /\ UNCHANGED <<explorer, snapshot, others, batchVars, callVars, concurrentVars>>

\* INSERT INTO / DELETE FROM one table
ChangeRows ==
    /\ \E i \in 1..Len(store), n \in 0..MaxRows :
          /\ n # store[i].row_count
          /\ store' = [store EXCEPT ![i].row_count = n]
    /\ UNCHANGED <<explorer, snapshot, others, batchVars, callVars, concurrentVars>>

\* SchemaExplorer(connection): a new instance replaces the one the caller held
BuildExplorer ==
    /\ \E listing \in get_all_tables(store) :
          LET schema_cache == _load_schema(store, listing)
          IN /\ explorer' = [built |-> TRUE, schema_cache |-> schema_cache]
             /\ snapshot' = [taken |-> TRUE, store |-> store, tables |-> listing,
                             compact |-> get_compact_schema(schema_cache),
                             rebuilt |-> explorer.built /\ snapshot.store = store,
                             before |-> IF explorer.built /\ snapshot.store = store
                                        THEN [tables |-> snapshot.tables,
                                              schema_cache |-> explorer.schema_cache,
                                              compact |-> snapshot.compact]
                                        ELSE NoBefore]
    /\ UNCHANGED <<store, others, batchVars, callVars, concurrentVars>>

-----------------------------------------------------------------------------
(* query_executor.py: QueryExecutor.execute_multiple, exercised on its own. *)

\* Most statements in a list handed to execute_multiple.
MaxQueries == 3

\* (mutant) the loop without its break
StopsBatch_never(query_result) == FALSE

\* "Stop if a query fails": the test before the break
StopsBatch(query_result) == ~query_result.success

\* The loop of execute_multiple from position i on: the results appended so far and
\* the positions of the statements handed to execute_query so far.
RECURSIVE BatchLoop(_, _, _, _)
BatchLoop(batch, i, results, executed) ==
    IF i > Len(batch) THEN [results |-> results, executed |-> executed]
    ELSE LET query_result == execute_query(batch[i].outcome, 0, 0).value
         IN IF StopsBatch(query_result)
            THEN [results |-> Append(results, query_result), executed |-> Append(executed, i)]
            ELSE BatchLoop(batch, i + 1, Append(results, query_result), Append(executed, i))

\* execute_multiple(queries)
execute_multiple(batch) == BatchLoop(batch, 1, <<>>, <<>>)

\* What the store does to the statements of a list: a one-row answer, no row, a
\* store error, another error.
BatchOutcomes ==
    {o \in SessionOutcomes : o.kind = "answer" => Len(o.fetched) <= 1}

BatchStatements == {SelectA, DropT}

NoBatchResult == [pending |-> TRUE, value |-> <<>>]

InitBatch ==
    /\ queries = <<>>
    /\ mresults = NoBatchResult
    /\ mexecuted = <<>>

\* the caller puts one more statement on its list
ComposeBatch ==
    /\ Len(queries) < MaxQueries
    /\ \E s \in BatchStatements, outcome \in BatchOutcomes :
          queries' = Append(queries, [sql |-> s, outcome |-> outcome])
    /\ mresults' = NoBatchResult
    /\ mexecuted' = <<>>
    /\ UNCHANGED <<others, catalogVars, callVars, concurrentVars>>

\* execute_multiple(queries) called
RunBatch ==
    /\ mresults.pending
    /\ LET run == execute_multiple(queries)
       IN /\ mresults' = [pending |-> FALSE, value |-> run.results]
          /\ mexecuted' = run.executed
    /\ UNCHANGED <<queries, others, catalogVars, callVars, concurrentVars>>

-----------------------------------------------------------------------------
(* agent.py: _call_llm exercised on its own, call after call on one agent. *)

\* Most _call_llm calls made on the agent.
MaxCalls == 3

NoLLMCall == [pending |-> TRUE]

InitCall ==
    /\ lmodel = NoModel
    /\ lsteps = <<>>
    /\ lcall = NoLLMCall
    /\ lcalls = 0

\* _call_llm(prompt): self.model and the log are the agent's, the backends answer
\* this call as `answers` says
CallLLM ==
    /\ lcalls < MaxCalls
    /\ \E answers \in BackendAnswers :
          LET call == _call_llm(lmodel, lsteps, answers)
          IN /\ lmodel' = call.model
             /\ lsteps' = call.steps
             /\ lcall' = [pending |-> FALSE, model_before |-> lmodel, steps_before |-> lsteps,
                          answers |-> answers, ok |-> call.ok, invoked |-> call.invoked]
    /\ lcalls' = lcalls + 1
    /\ UNCHANGED <<others, catalogVars, batchVars, concurrentVars>>

\* a new question starts: answer_question resets the log
NewQuestion ==
    /\ ~lcall.pending
    /\ lsteps' = reset_reasoning_steps(lsteps)
    /\ lcall' = NoLLMCall
    /\ UNCHANGED <<lmodel, lcalls, others, catalogVars, batchVars, concurrentVars>>

-----------------------------------------------------------------------------
(* agent.py: two answer_question invocations in flight on one agent, each  *)
(* on a thread of its own.  Both questions are table-listing questions:    *)
(* reset of the log, the "analyze" step, the "meta" step, the trace        *)
(* formatted for the response.  A thread can be switched between any two   *)
(* reads or writes of self.reasoning_steps.                                *)

Threads == {1, 2}
Other(t) == 3 - t

\* the question each thread asks
QuestionOf(t) == IF t = 1 THEN "What tables exist?" ELSE "Please list tables"

\* The steps an invocation adds, in order: what _add_reasoning_step is called with.
Additions(t) ==
    << [action |-> "analyze", description |-> "Analyzing user question",
        details |-> Some(<<"Question: ", QuestionOf(t)>>)],
       [action |-> "meta", description |-> "Detected meta-query: list tables",
        details |-> Some(<<"Using schema explorer to get table list">>)] >>

\* where an invocation stands: not started, about to build its k-th step, about to
\* append it, about to format the trace, returned
At(place, k) == [at |-> place, k |-> k]
InFlight(t) == tpc[t].at \in {"build", "append", "format"}

NoStep == [pending |-> TRUE]
NoTrace == [returned |-> FALSE, text |-> <<>>, steps |-> <<>>]

\* the steps of a log, without the marks of who added them
Steps(log) == [i \in 1..Len(log) |-> log[i].step]

InitConcurrent ==
    /\ tpc = [t \in Threads |-> At("idle", 0)]
    /\ tstep = [t \in Threads |-> NoStep]
    /\ tsteps = <<>>
    /\ ttrace = [t \in Threads |-> NoTrace]
    /\ overlapped = [t \in Threads |-> FALSE]
    /\ twiped = [t \in Threads |-> FALSE]

\* answer_question(question) starts on thread t: self.reasoning_steps = []
StartQuestion(t) ==
    /\ tpc[t].at \in {"idle", "returned"}
    /\ tsteps' = reset_reasoning_steps(tsteps)
    /\ tpc' = [tpc EXCEPT ![t] = At("build", 1)]
    /\ ttrace' = [ttrace EXCEPT ![t] = NoTrace]
    /\ overlapped' = [u \in Threads |->
                         IF InFlight(Other(t)) THEN TRUE
                         ELSE IF u = t THEN FALSE ELSE overlapped[u]]
    /\ twiped' = [u \in Threads |->
                     IF u = t THEN FALSE
                     ELSE twiped[u] \/ (InFlight(u) /\ \E i \in 1..Len(tsteps) : tsteps[i].owner = u)]
    /\ UNCHANGED <<tstep, others, catalogVars, batchVars, callVars>>

\* _add_reasoning_step, first half: the step is built, numbered len(self.reasoning_steps) + 1
BuildStep(t) ==
    /\ tpc[t].at = "build"
    /\ LET add == Additions(t)[tpc[t].k]
       IN tstep' = [tstep EXCEPT ![t] =
              ReasoningStep(Len(tsteps) + 1, add.description, add.action, add.details)]
    /\ tpc' = [tpc EXCEPT ![t] = At("append", tpc[t].k)]
    /\ UNCHANGED <<tsteps, ttrace, overlapped, twiped, others, catalogVars, batchVars, callVars>>

\* _add_reasoning_step, second half: self.reasoning_steps.append(step)
AppendStep(t) ==
    /\ tpc[t].at = "append"
    /\ tsteps' = Append(tsteps, [owner |-> t, step |-> tstep[t]])
    /\ tstep' = [tstep EXCEPT ![t] = NoStep]
    /\ tpc' = [tpc EXCEPT ![t] = IF tpc[t].k < Len(Additions(t))
                                 THEN At("build", tpc[t].k + 1)
                                 ELSE At("format", 0)]
    /\ UNCHANGED <<ttrace, overlapped, twiped, others, catalogVars, batchVars, callVars>>

\* 'reasoning': self._format_reasoning_trace() in the dict answer_question returns
ReturnTrace(t) ==
    /\ tpc[t].at = "format"
    /\ ttrace' = [ttrace EXCEPT ![t] =
          [returned |-> TRUE, text |-> format_reasoning_trace(Steps(tsteps)), steps |-> tsteps]]
    /\ tpc' = [tpc EXCEPT ![t] = At("returned", 0)]
    /\ UNCHANGED <<tstep, tsteps, overlapped, twiped, others, catalogVars, batchVars, callVars>>

-----------------------------------------------------------------------------
(* Specifications.                                                         *)

Init ==
    /\ InitValidator /\ InitExecutor /\ InitAgent /\ InitPlanner /\ InitOptimizer /\ InitFormatter
    /\ InitCatalog /\ InitBatch /\ InitCall /\ InitConcurrent

Next == AnswerQuestion \/ GenerateSQL \/ ExecuteAttempt \/ Recover \/ Synthesize
Spec == Init /\ [][Next]_vars

NextValidate == ComposeStatement \/ Validate
SpecValidate == Init /\ [][NextValidate]_vars

NextExecute == Execute
SpecExecute == Init /\ [][NextExecute]_vars

NextPlan == DraftPlan \/ BuildQuery
SpecPlan == Init /\ [][NextPlan]_vars

NextOptimize == ComposeText \/ Optimize
SpecOptimize == Init /\ [][NextOptimize]_vars

NextFormat == ProduceResult \/ Format
SpecFormat == Init /\ [][NextFormat]_vars

NextBatch == ComposeBatch \/ RunBatch
SpecBatch == Init /\ [][NextBatch]_vars

NextConcurrent ==
    \/ \E t \in Threads : StartQuestion(t)
    \/ \E t \in Threads : BuildStep(t)
    \/ \E t \in Threads : AppendStep(t)
    \/ \E t \in Threads : ReturnTrace(t)
SpecConcurrent == Init /\ [][NextConcurrent]_vars

NextCall == CallLLM \/ NewQuestion
SpecCall == Init /\ [][NextCall]_vars

NextCatalog == CreateTable \/ DropTable \/ ChangeRows \/ BuildExplorer
SpecCatalog == Init /\ [][NextCatalog]_vars

-----------------------------------------------------------------------------
(* What the claims speak of, stated on the statement's own characters,     *)
(* independently of how validate_query computes it.                        *)

\* every character, folded to lower case
Alphabet ==
    Range(LowerLetters) \cup Range(UpperLetters) \cup Digits \cup Whitespace
        \cup {"_", "*", ";", ",", "(", ")", "=", "."}
FoldTable ==
    [c \in Alphabet |->
        IF c \in Range(UpperLetters)
        THEN LowerLetters[CHOOSE i \in 1..26 : UpperLetters[i] = c]
        ELSE c]

\* c and d are the same character up to letter case
SameLetter(c, d) == FoldTable[c] = FoldTable[d]

\* word occurs in s at position i, in any letter case
OccursAt(s, word, i) ==
    /\ i >= 1
    /\ i + Len(word) - 1 <= Len(s)
    /\ \A j \in 1..Len(word) : SameLetter(s[i + j - 1], word[j])

\* word occurs somewhere in s, in any letter case
Occurs(s, word) == \E i \in 1..Len(s) : OccursAt(s, word, i)

\* word occurs in s as a whole word, in any letter case
OccursAsWord(s, word) ==
    \E i \in 1..Len(s) :
        /\ OccursAt(s, word, i)
        /\ (i > 1 => ~IsWordChar(s[i - 1]))
        /\ (i + Len(word) <= Len(s) => ~IsWordChar(s[i + Len(word)]))

\* word occurs in s, but only inside a longer identifier
OccursOnlyAsFragment(s, word) == Occurs(s, word) /\ ~OccursAsWord(s, word)

\* the forbidden keywords that occur in s as whole words
ForbiddenWordsIn(s) == {keyword \in FORBIDDEN_KEYWORDS : OccursAsWord(s, Chars(keyword))}

\* s with its leading whitespace removed
TrimLeading(s) ==
    IF \A i \in 1..Len(s) : s[i] \in Whitespace THEN <<>>
    ELSE SubSeq(s, CHOOSE i \in 1..Len(s) :
                       /\ s[i] \notin Whitespace
                       /\ \A j \in 1..(i - 1) : s[j] \in Whitespace,
                Len(s))

\* s begins, after its leading whitespace, with SELECT or WITH in any letter case
BeginsReadOnly(s) ==
    \/ OccursAt(TrimLeading(s), Chars("SELECT"), 1)
    \/ OccursAt(TrimLeading(s), Chars("WITH"), 1)

\* s holds the text SELECT * (one space) in any letter case, and nowhere the text LIMIT
UnboundedSelectStarText(s) ==
    Occurs(s, Chars("SELECT *")) /\ ~Occurs(s, Chars("LIMIT"))

\* s selects all columns: SELECT, any whitespace (or none), then *
SelectsAllColumns(s) ==
    \E i \in 1..Len(s), j \in 1..Len(s) :
        /\ OccursAt(s, Chars("SELECT"), i)
        /\ j >= i + 6
        /\ s[j] = "*"
        /\ \A k \in (i + 6)..(j - 1) : s[k] \in Whitespace

ForbiddenReasons == {ForbiddenReason(keyword) : keyword \in FORBIDDEN_KEYWORDS}

Validated == vresult # NotRun

-----------------------------------------------------------------------------
(* Claims about validate_query (checked under SpecValidate).               *)

\* C3: a statement that holds a forbidden keyword as a whole word, in any letter
\* case, is invalid and the reason names a forbidden keyword that occurs in it as a
\* whole word; a statement that holds forbidden keywords only as fragments of longer
\* identifiers is not rejected for a forbidden keyword.
C3_ForbiddenKeywordRejected ==
    Validated =>
        /\ ForbiddenWordsIn(vsql) # {} =>
              /\ ~vresult.is_valid
              /\ \E keyword \in ForbiddenWordsIn(vsql) : vresult.error = ForbiddenReason(keyword)
        /\ ForbiddenWordsIn(vsql) = {} => vresult.error \notin ForbiddenReasons

\* C3 witness: a lower-case forbidden keyword stands as a whole word and is named in
\* the reason, while another forbidden keyword occurs only as part of an identifier.
C3_Witness ==
    /\ Validated
    /\ contains(vsql, <<"d","r","o","p">>)
    /\ ForbiddenWordsIn(vsql) = {"DROP"}
    /\ OccursOnlyAsFragment(vsql, Chars("CREATE"))
    /\ vresult = [is_valid |-> FALSE, error |-> ForbiddenReason("DROP")]

\* C4 (as claimed): of the statements without a forbidden keyword, one with
\* SELECT * and no LIMIT is rejected, one with a LIMIT is not rejected for SELECT *,
\* and every accepted statement that selects all columns holds a LIMIT.
C4_SelectAllIsBounded ==
    (Validated /\ ForbiddenWordsIn(vsql) = {}) =>
        /\ UnboundedSelectStarText(vsql) => ~vresult.is_valid
        /\ Occurs(vsql, Chars("LIMIT")) => vresult.error # SelectStarReason
        /\ (vresult.is_valid /\ SelectsAllColumns(vsql)) => Occurs(vsql, Chars("LIMIT"))

C6_FirstViolationWins ==
    Validated =>
        /\ ForbiddenWordsIn(vsql) # {} => vresult.error \in ForbiddenReasons
        /\ (ForbiddenWordsIn(vsql) = {} /\ UnboundedSelectStarText(vsql)) =>
              vresult = [is_valid |-> FALSE, error |-> SelectStarReason]
        /\ (ForbiddenWordsIn(vsql) = {} /\ ~UnboundedSelectStarText(vsql)
              /\ ~BeginsReadOnly(vsql)) =>
              vresult = [is_valid |-> FALSE, error |-> NotSelectReason]
        /\ (ForbiddenWordsIn(vsql) = {} /\ ~UnboundedSelectStarText(vsql)
              /\ BeginsReadOnly(vsql)) =>
              vresult = [is_valid |-> TRUE, error |-> None]

\* C6 witness: a statement that violates the SELECT * rule and the prefix rule (and
\* holds no forbidden keyword) gets the SELECT * reason.
C6_Witness ==
    /\ Validated
    /\ ForbiddenWordsIn(vsql) = {}
    /\ UnboundedSelectStarText(vsql)
    /\ ~BeginsReadOnly(vsql)
    /\ vresult.error = SelectStarReason

-----------------------------------------------------------------------------
(* Claims about execute_query (checked under SpecExecute).                 *)

Called == xoutcome.kind # NoOutcome.kind

C8_QueryResultInvariant ==
    (Called /\ ~xcall.raised) =>
        /\ xcall.value.row_count = Len(xcall.value.rows)
        /\ ~xcall.value.success => xcall.value.row_count = 0
        /\ xcall.value.error.is_none <=> xcall.value.success

\* C8 witness: a statement that succeeds with no rows.
C8_Witness ==
    /\ Called
    /\ ~xcall.raised
    /\ xoutcome.kind = "answer"
    /\ xoutcome.has_description
    /\ xcall.value.success
    /\ xcall.value.row_count = 0
    /\ xcall.value.error = None

-----------------------------------------------------------------------------
(* Claims about the agent (checked under Spec).                            *)

\* the steps of the log with the given action
StepsOf(action) == {i \in 1..Len(reasoning_steps) : reasoning_steps[i].action = action}

\* the log records this many execution attempts
ExecutionAttemptsRecorded == Cardinality(StepsOf("execute"))

\* validate_query accepts the statement
Accepts(sql_text) == \E verdict \in validate_query(sql_text) : verdict.is_valid

\* C1 (as claimed): every statement handed to execute_query, the initial candidate
\* and every correction adopted during recovery, is one validate_query accepts.
C1_ExecutedStatementsAreValid ==
    \A i \in 1..Len(executions) : Accepts(executions[i].sql)

\* C2: when validate_query rejects the initial candidate, answer_question has ended
\* with success false, the validator's reason as the error and in the answer, no
\* statement handed to the executor and no correction requested.
C2_InvalidCandidateEndsQuestion ==
    (validations # <<>> /\ ~validations[1].is_valid) =>
        /\ pc = "done"
        /\ Len(validations) = 1
        /\ response.success = FALSE
        /\ response.error \in {verdict.error : verdict \in validate_query(sql)}
        /\ ~response.error.is_none
        /\ response.answer = <<"Generated SQL failed safety validation: ">> \o response.error.text
        /\ response.sql = sql
        /\ executions = <<>>
        /\ ExecutionAttemptsRecorded = 0
        /\ corrections = 0

\* C2 witness: a candidate with a forbidden keyword ended the question.
C2_Witness ==
    /\ pc = "done"
    /\ validations = <<[sql |-> DropT, is_valid |-> FALSE]>>
    /\ response.success = FALSE
    /\ response.error = ForbiddenReason("DROP")
    /\ executions = <<>>

\* C9: when an execution succeeds, the loop stops at once: it was pass k <= 3, the
\* k-1 passes before it failed, exactly k execution attempts are recorded, and the
\* successful result is the one returned.
C9_StopsAtFirstSuccess ==
    (executions # <<>> /\ executions[Len(executions)].success) =>
        /\ pc \in {"synthesize", "done"}
        /\ result.success
        /\ Len(executions) <= max_retries
        /\ Len(executions) = attempt + 1
        /\ \A i \in 1..(Len(executions) - 1) : ~executions[i].success
        /\ ExecutionAttemptsRecorded = Len(executions)
        /\ Cardinality(StepsOf("success")) = 1
        /\ pc = "done" =>
              /\ response.success
              /\ response.row_count = result.row_count
              /\ response.execution_time = result.execution_time

\* C9 witness: a failing statement, then a working correction: success after
\* exactly two execution attempts.
C9_Witness ==
    /\ pc = "done"
    /\ Len(executions) = 2
    /\ ~executions[1].success
    /\ executions[2].success
    /\ executions[2].sql # executions[1].sql
    /\ ExecutionAttemptsRecorded = 2
    /\ response.success

\* C10: when every execution failed and the loop is over, exactly max_retries (3)
\* execution attempts were made and recorded, the result is that of the last
\* failing execution and the answer reports success false.
C10_ExhaustsBudget ==
    (pc \in {"synthesize", "done"} /\ executions # <<>>
        /\ ~executions[Len(executions)].success) =>
        /\ Len(executions) = max_retries
        /\ \A i \in 1..Len(executions) : ~executions[i].success
        /\ ExecutionAttemptsRecorded = max_retries
        /\ ~result.success
        /\ ~result.error.is_none
        /\ pc = "done" =>
              /\ response.success = FALSE
              /\ response.row_count = 0
              /\ response.execution_time = result.execution_time

\* C10 witness: the proposer answered with the same failing statement every time.
C10_Witness ==
    /\ pc = "done"
    /\ Len(executions) = max_retries
    /\ \A i \in 1..Len(executions) :
          ~executions[i].success /\ executions[i].sql = executions[1].sql
    /\ corrections = max_retries - 1
    /\ response.success = FALSE

\* C11: when a correction request fails (every backend fails, or no statement can be
\* extracted from the response), nothing is raised: the loop goes on to its next
\* pass, and that pass executes the statement that had just failed, unchanged.
C11_FailedRecoveryReusesStatement ==
    \A k \in 1..Len(recoveries) :
        ~recoveries[k].extracted_ok =>
            /\ pc # "raised"
            /\ Len(executions) >= k
            /\ recoveries[k].failed_sql = executions[k].sql
            /\ IF Len(executions) > k
               THEN executions[k + 1].sql = executions[k].sql
               ELSE pc = "execute" /\ retry_sql = executions[k].sql /\ attempt = k

\* C11 witness: the first correction request failed on every backend, the second got
\* a response with no statement in it, and the same statement was executed three times.
C11_Witness ==
    /\ Len(recoveries) = 2
    /\ ~recoveries[1].backend_ok
    /\ recoveries[2].backend_ok /\ ~recoveries[2].extracted_ok
    /\ Len(executions) = 3
    /\ executions[2].sql = executions[1].sql
    /\ executions[3].sql = executions[1].sql

\* C12 (as claimed): the 'sql' field of the result returned after execution is the
\* statement of the last execution attempt.
C12_SqlFieldIsStatementUsed ==
    (pc = "done" /\ executions # <<>>) =>
        response.sql = executions[Len(executions)].sql

\* the fields every returned result carries
CommonFields == {"success", "answer", "sql"}
\* the fields of a result returned after execution
ExecutionFields == {"row_count", "execution_time"}

IsPrefix(s, t) == Len(s) <= Len(t) /\ SubSeq(t, 1, Len(s)) = s

\* C14: the i-th step of the log carries step number i; within a question no step
\* is removed or reordered (the log only grows at its end); every execution attempt
\* appends its "execute" step, followed by the step of its success or of its failure.
C14_LogGrowsByNumberedSteps ==
    [][ /\ \A i \in 1..Len(reasoning_steps') : reasoning_steps'[i].step_number = i
        /\ pc \notin {"idle", "done", "raised"} => IsPrefix(reasoning_steps, reasoning_steps')
        /\ Len(executions') = Len(executions) + 1 =>
              /\ Len(reasoning_steps') = Len(reasoning_steps) + 2
              /\ reasoning_steps'[Len(reasoning_steps) + 1].action = "execute"
              /\ reasoning_steps'[Len(reasoning_steps) + 2].action =
                    (IF executions'[Len(executions')].success THEN "success" ELSE "error")
      ]_vars

\* C14 witness: two failed attempts and a successful one, each logged, in a log
\* numbered 1, 2, 3, ... .
C14_Witness ==
    /\ Len(executions) = 3
    /\ executions[3].success
    /\ Cardinality(StepsOf("execute")) = 3
    /\ Cardinality(StepsOf("success")) = 1
    /\ Cardinality({i \in StepsOf("error") :
                       reasoning_steps[i].description = "Query failed"}) = 2
    /\ \A i \in 1..Len(reasoning_steps) : reasoning_steps[i].step_number = i

\* C15: whatever the questions answered before, the log of the question being
\* answered starts with step 1, the analyze step of this question, holds no other
\* analyze step, and holds no more steps of each kind than this question has made.
C15_LogResetPerQuestion ==
    pc # "idle" =>
        /\ reasoning_steps # <<>>
        /\ reasoning_steps[1] = ReasoningStep(1, "Analyzing user question", "analyze",
                                              Some(<<"Question: ", question.text>>))
        /\ Cardinality(StepsOf("analyze")) = 1
        /\ Cardinality(StepsOf("explore")) <= 1
        /\ Cardinality(StepsOf("generate")) <= 1
        /\ Cardinality(StepsOf("synthesize")) <= 1
        /\ Cardinality(StepsOf("meta")) <= Len(question.mentions) + 1
        /\ Cardinality(StepsOf("validate")) <= Len(validations)
        /\ Cardinality(StepsOf("execute")) = Len(executions)
        /\ Cardinality(StepsOf("recover")) <= Len(recoveries)

\* C15 witness: a question whose log holds only its first three steps, asked after
\* a question that reached the proposer and fell back to the second backend (only
\* an earlier question can have switched self.model: this one has not called the
\* proposer yet), which logged "Model Fallback".
C15_Witness ==
    /\ pc = "generate"
    /\ model = candidates[2]
    /\ Len(reasoning_steps) = 3
    /\ reasoning_steps[1].action = "analyze"
    /\ StepsOf("warning") = {}

-----------------------------------------------------------------------------
(* Claims about build_query_from_plan (checked under SpecPlan).            *)

Built == built # NotBuilt

\* s ends with t
EndsWith(s, t) == Len(t) <= Len(s) /\ SubSeq(s, Len(s) - Len(t) + 1, Len(s)) = t

\* the select list holds an aggregate count: COUNT as a whole word, in any case
HasAggregateCount(columns) == \E i \in 1..Len(columns) : OccursAsWord(columns[i], Chars("COUNT"))

\* C16: build_query_from_plan returns only statements that pass the three checks of
\* the validator (no forbidden keyword as a whole word, no SELECT * without LIMIT, a
\* SELECT or WITH at the start); otherwise it raises: so for a plan with no columns,
\* a grouping and no limit, and for a plan with no table.
C16_BuiltStatementsAreValid ==
    Built =>
        /\ ~built.raised =>
              /\ ForbiddenWordsIn(built.value) = {}
              /\ ~UnboundedSelectStarText(built.value)
              /\ BeginsReadOnly(built.value)
        /\ plan.tables = <<>> => built.raised /\ built.value.type = "ValueError"
        /\ (plan.columns = <<>> /\ Truthy(plan.grouping) /\ plan.limit.is_none) => built.raised

\* C16 witness: a plan with a table, no columns, a grouping and no limit was refused
\* for its SELECT * without LIMIT.
C16_Witness ==
    /\ Built
    /\ plan.tables # <<>>
    /\ plan.columns = <<>>
    /\ Truthy(plan.grouping)
    /\ plan.limit.is_none
    /\ built.raised
    /\ built.value.message = <<"Generated query failed validation: ">> \o SelectStarReason.text

\* C17 (as claimed): a returned statement ends with the default limit when the plan
\* has no limit, no grouping and no aggregate count in its select list (a column
\* such as Country is no aggregate count); with an explicit limit n, 0 included, it
\* ends with LIMIT n and holds no default limit.
C17_DefaultLimitInjected ==
    (Built /\ ~built.raised) =>
        /\ (plan.limit.is_none /\ ~Truthy(plan.grouping) /\ ~HasAggregateCount(plan.columns)) =>
              EndsWith(built.value, <<"\n","L","I","M","I","T"," ">> \o IntToChars(DEFAULT_LIMIT) \o <<";">>)
        /\ ~plan.limit.is_none =>
              /\ EndsWith(built.value, <<"\n","L","I","M","I","T"," ">> \o IntToChars(plan.limit.value) \o <<";">>)
              /\ ~contains(built.value, <<"L","I","M","I","T"," ">> \o IntToChars(DEFAULT_LIMIT))

-----------------------------------------------------------------------------
(* Claims about optimize_query (checked under SpecOptimize).               *)

\* C18 (as claimed): optimize_query applied to its own result returns that result.
C18_OptimizeIsIdempotent ==
    Optimized => reoptimized = optimized

-----------------------------------------------------------------------------
(* Claims about format_result (checked under SpecFormat).                  *)

\* The renderings a text can be, told by how its first line begins.
Kinds(text) ==
    {kind \in {"error", "empty", "scalar", "list", "table", "summary"} :
        /\ text # <<>>
        /\ Len(text[1]) >= 2
        /\ CASE kind = "error"   -> text[1][1] = CrossMark /\ text[1][2] = " Query failed: "
             [] kind = "empty"   -> text[1][1] = CheckMark /\ text[1][2] =
                                       " Query executed successfully, but returned no results."
             [] kind = "scalar"  -> text[1][1] = CheckMark /\ text[1][2] \in
                                       {" There are **", " The total is **",
                                        " The average is **", " The answer is **"}
             [] kind = "list"    -> text[1][1] = CheckMark /\ text[1][2] = " Here are the **"
             [] kind = "table"   -> text[1][1] = CheckMark /\ text[1][2] = " Found **"
             [] kind = "summary" -> text[1][1] = CheckMark /\ text[1][2] = " Found "}

\* The rendering the claim assigns to a result, by its shape.
ExpectedKind(r) ==
    IF ~r.success THEN "error"
    ELSE IF Len(r.rows) = 0 THEN "empty"
    ELSE IF Len(r.rows) = 1 /\ Len(r.columns) = 1 THEN "scalar"
    ELSE IF Len(r.columns) = 1 /\ Len(r.rows) > 1 THEN "list"
    ELSE IF Len(r.columns) > 1 /\ Len(r.rows) <= 20 THEN "table"
    ELSE "summary"

NotSpace(c) == c # " "
\* a line without its spaces
Unpadded(line) == SelectSeq(line, NotSpace)
\* the values of a row, separated by bars
BarSeparated(row) == join(<<"|">>, [j \in 1..Len(row) |-> IntToChars(row[j])])

\* C19: format_result returns exactly one rendering, the one the shape of the result
\* calls for: error text when unsuccessful, the no-results message for zero rows, a
\* scalar for one row and one column, a numbered list of all the values for one
\* column and more rows (however many), a table for more columns and at most 20
\* rows, and the summary otherwise, which is then a result of more than 20 rows.
C19_RenderingByShape ==
    Formatted =>
        /\ Kinds(ftext.text) = {ExpectedKind(fresult)}
        /\ ExpectedKind(fresult) = "error" =>
              ftext.text = << <<CrossMark, " Query failed: ">> \o fresult.error.text >>
        /\ ExpectedKind(fresult) = "list" =>
              /\ Len(ftext.text) = 2 + Len(fresult.rows)
              /\ \A i \in 1..Len(fresult.rows) :
                    ftext.text[2 + i] =
                        IntToChars(i) \o <<".", " ">> \o IntToChars(fresult.rows[i][1])
        /\ ExpectedKind(fresult) = "table" =>
              /\ Len(ftext.text) = 4 + Len(fresult.rows)
              /\ \A i \in 1..Len(fresult.rows) :
                    Unpadded(ftext.text[4 + i]) = BarSeparated(fresult.rows[i])
        /\ ExpectedKind(fresult) = "summary" => Len(fresult.rows) > 20

\* C19 witness: a single column of 25 values is rendered as a list of 25 entries.
C19_Witness ==
    /\ Formatted
    /\ fresult.success
    /\ Len(fresult.columns) = 1
    /\ fresult.row_count = 25
    /\ Kinds(ftext.text) = {"list"}
    /\ Len(ftext.text) = 27

\* C20: for a successful result of more than one column and more than 20 rows, the
\* text holds exactly ten table rows, the first ten rows of the result in order, and
\* ends with the note citing row_count - 10 remaining rows.
C20_SummaryShowsFirstTen ==
    (Formatted /\ fresult.success /\ Len(fresult.columns) > 1 /\ fresult.row_count > 20) =>
        /\ Len(ftext.text) = 20
        /\ ftext.text[3] = <<"Showing first 10 rows:">>
        /\ ftext.text[8] # <<>> /\ Range(ftext.text[8]) = {"-"}
        /\ \A k \in 1..10 : Unpadded(ftext.text[8 + k]) = BarSeparated(fresult.rows[k])
        /\ ftext.text[19] = <<>>
        /\ ftext.text[20] =
              <<"... and ">> \o IntToChars(fresult.row_count - 10) \o <<" more rows.">>

\* C20 witness: 25 rows of three columns: ten sample rows and the number 15.
C20_Witness ==
    /\ Formatted
    /\ fresult.success
    /\ Len(fresult.columns) = 3
    /\ fresult.row_count = 25
    /\ Len(ftext.text) = 20
    /\ ftext.text[20] = <<"... and ", "1", "5", " more rows.">>

\* the place of a table name in the order of names
NameRank(name) == CHOOSE i \in 1..Len(NameOrder) : NameOrder[i] = name

\* a list of table names is in the order of names, without repetition
SortedByName(names) ==
    \A i, j \in 1..Len(names) : i < j => NameRank(names[i]) < NameRank(names[j])

\* the tables a compact context lists, in its order: the first piece of each of
\* its heading lines ("<name> (<n> rows):")
ListedInCompact(compact) ==
    LET IsHeading(line) == Len(line) >= 2 /\ line[2] = " ("
        headings == SelectSeq(compact, IsHeading)
    IN [i \in 1..Len(headings) |-> headings[i][1]]

\* the names of the columns PRAGMA table_info declares, in their order
DeclaredColumns(name) ==
    [i \in 1..Len(PragmaTableInfo(name)) |-> PragmaTableInfo(name)[i][2]]

\* C21 (as claimed): the catalog is a snapshot taken at construction: whatever
\* happens to the store afterwards, the table list, the cached table information
\* and the compact context are what they were right after construction, and every
\* table the explorer lists has a cached TableInfo.
C21_CatalogIsSnapshot ==
    explorer.built =>
        /\ \A listing \in get_all_tables(store) :
              /\ listing = snapshot.tables
              /\ \A i \in 1..Len(listing) :
                    ~get_table_info(explorer.schema_cache, listing[i]).is_none
        /\ explorer.schema_cache = _load_schema(snapshot.store, snapshot.tables)
        /\ get_compact_schema(explorer.schema_cache) = snapshot.compact

\* C22: building an explorer again against an unchanged store yields the same table
\* list, the same cached table information (columns in the order of declaration)
\* and the same compact context as the build before; and the compact context of any
\* build lists the tables sorted by name, whatever the order of their creation.
C22_ConstructionIsDeterministic ==
    explorer.built =>
        /\ snapshot.rebuilt =>
              /\ snapshot.tables = snapshot.before.tables
              /\ explorer.schema_cache = snapshot.before.schema_cache
              /\ snapshot.compact = snapshot.before.compact
        /\ \A i \in 1..Len(explorer.schema_cache) :
              [c \in 1..Len(explorer.schema_cache[i].columns) |->
                  explorer.schema_cache[i].columns[c].name]
              = DeclaredColumns(explorer.schema_cache[i].name)
        /\ SortedByName(ListedInCompact(snapshot.compact))
        /\ Len(ListedInCompact(snapshot.compact)) = Len(explorer.schema_cache)

\* C22 witness: an explorer was built a second time against an unchanged store of
\* three tables which were not created in the order of their names.
C22_Witness ==
    /\ snapshot.taken /\ snapshot.rebuilt
    /\ Len(store) = 3 /\ store[1].name = "Track" /\ store[3].name = "Album"
    /\ snapshot.tables = <<"Album", "Artist", "Track">>
    /\ ListedInCompact(snapshot.compact) = snapshot.tables

-----------------------------------------------------------------------------
(* Claims about the paths of answer_question (checked under Spec).         *)

\* the question is a meta-query: a table-listing phrase, or a schema keyword with the
\* name of a table of the store
IsMetaQuery(q) == q.list_phrase \/ (q.schema_word /\ Len(q.mentions) >= 1)

\* the question in hand was answered from the catalog
AnsweredFromCatalog ==
    /\ pc = "done"
    /\ "is_meta" \in DOMAIN response
    /\ response.is_meta /\ response.success

\* C23 (as claimed): a meta-query is answered from the catalog alone: no generation
\* step, no validation, no execution and no recovery happen for it, and its response
\* has success and the meta flag set; a schema question that names no table takes the
\* proposer path and its response carries no meta flag.
C23_MetaAnsweredFromCatalog ==
    question # NoQuestion =>
        /\ IsMetaQuery(question) =>
              /\ AnsweredFromCatalog
              /\ StepsOf("generate") = {}
              /\ validations = <<>> /\ executions = <<>>
              /\ corrections = 0 /\ recoveries = <<>>
        /\ ~IsMetaQuery(question) =>
              /\ StepsOf("generate") # {}
              /\ StepsOf("meta") = {}
              /\ "is_meta" \notin DOMAIN response
-----------------------------------------------------------------------------
(* Claims about execute_multiple (checked under SpecBatch).                *)

\* the store makes the statement at position i of the list fail
FailsAt(i) == queries[i].outcome.kind # "answer"

\* C24: execute_multiple hands the statements to execute_query in list order, from
\* the first one on, and stops at the first failure: the list it returns holds one
\* result for each statement of a prefix of its argument, only the last of them can
\* be a failure, it is shorter than the argument only when its last result is a
\* failure, and no statement after the first failing one is executed.
C24_BatchStopsAtFirstFailure ==
    ~mresults.pending =>
        LET results == mresults.value
        IN /\ Len(results) <= Len(queries)
           /\ mexecuted = [i \in 1..Len(results) |-> i]
           /\ \A i \in 1..Len(results) :
                 /\ results[i].success = ~FailsAt(i)
                 /\ FailsAt(i) => ~results[i].error.is_none
                 /\ i < Len(results) => results[i].success
           /\ Len(results) < Len(queries) => ~results[Len(results)].success
           /\ \A i \in 1..Len(queries) :
                 FailsAt(i) => \A j \in (i + 1)..Len(queries) : j \notin Range(mexecuted)

\* C24 witness: of three statements the second failed; two results were returned
\* and the third statement was not executed.
C24_Witness ==
    /\ ~mresults.pending
    /\ Len(queries) = 3 /\ ~FailsAt(1) /\ FailsAt(2) /\ ~FailsAt(3)
    /\ Len(mresults.value) = 2
    /\ mresults.value[1].success /\ ~mresults.value[2].success
    /\ mexecuted = <<1, 2>>
-----------------------------------------------------------------------------
(* Claims about _call_llm (checked under SpecCall).                        *)

\* the priority of a backend in the fallback order
Priority(backend) == IF backend = "gemini-1.5-flash" THEN 1 ELSE 2

\* the backend a call starts with
StartsWith(call) ==
    IF call.model_before = NoModel THEN "gemini-1.5-flash" ELSE call.model_before

\* C25: a call invokes the current backend first; when that fails, the backends it
\* then invokes come in the priority order (gemini-1.5-flash before gemini-1.5-pro),
\* each invoked only after every earlier invocation failed; the call returns with the
\* first response, invoking nothing after it, and a response obtained from a
\* fallback adds one "warning" step naming the backend that answered, which is then
\* the current backend; when every invocation fails, gemini-1.5-flash and
\* gemini-1.5-pro have both been invoked, one "error" step ("All models failed") is
\* added and the call raises.
C25_FallbackInPriorityOrder ==
    ~lcall.pending =>
        LET invoked == lcall.invoked
            n == Len(invoked)
            added == SubSeq(lsteps, Len(lcall.steps_before) + 1, Len(lsteps))
        IN /\ n >= 1 /\ invoked[1] = StartsWith(lcall)
           /\ SubSeq(lsteps, 1, Len(lcall.steps_before)) = lcall.steps_before
           /\ \A i, j \in 2..n : i < j => Priority(invoked[i]) < Priority(invoked[j])
           /\ \A i \in 1..(n - 1) : ~lcall.answers[i]
           /\ lcall.ok = lcall.answers[n]
           /\ lcall.ok => lmodel = invoked[n]
           /\ (lcall.ok /\ n = 1) => added = <<>>
           /\ (lcall.ok /\ n > 1) =>
                 /\ Len(added) = 1
                 /\ added[1].action = "warning" /\ added[1].description = "Model Fallback"
                 /\ added[1].details = Some(<<"Switched to ", invoked[n], " after previous failure">>)
           /\ ~lcall.ok =>
                 /\ Range(invoked) = Range(candidates)
                 /\ Len(added) = 1
                 /\ added[1].action = "error" /\ added[1].description = "All models failed"

\* C25 witness: the current backend gemini-1.5-flash failed and gemini-1.5-pro
\* answered: the log says so and gemini-1.5-pro is the current backend.
C25_Witness ==
    /\ ~lcall.pending /\ lcall.ok
    /\ lcall.invoked = <<"gemini-1.5-flash", "gemini-1.5-pro">>
    /\ lmodel = "gemini-1.5-pro"
    /\ lsteps # <<>>
    /\ lsteps[Len(lsteps)].action = "warning"

\* C28 (as claimed): no backend is invoked twice in one _call_llm call, whatever
\* the current backend at the start of the call: the one that just failed is skipped.
C28_NoBackendInvokedTwice ==
    ~lcall.pending =>
        \A i, j \in 1..Len(lcall.invoked) : i # j => lcall.invoked[i] # lcall.invoked[j]
\* the question in hand has been answered, or answer_question raised
Finished == pc \in {"done", "raised"}

\* C26 (as claimed): for every non-meta question validate_query is called exactly
\* once: once the question is finished, one call has been made.
C26_ValidatedExactlyOnce ==
    (question # NoQuestion /\ ~IsMetaQuery(question) /\ Finished) => Len(validations) = 1

\* C26 (amended): validate_query is called at most once per question; it has been
\* called once, on the initial candidate, whenever the question got past generation
\* (the loop is running or over, or a response other than a catalog answer was
\* returned), and the first execution is of that candidate, which was accepted;
\* the statements of the later executions, corrections included, are not validated;
\* when the proposer's first request failed, it has not been called at all.
C26_ValidatedOnceBeforeExecution ==
    /\ Len(validations) <= 1
    /\ pc \in {"execute", "recover", "synthesize"} => Len(validations) = 1
    /\ (pc = "done" /\ ~AnsweredFromCatalog) => Len(validations) = 1
    /\ pc = "raised" => validations = <<>>
    /\ validations # <<>> => validations[1].sql = sql
    /\ executions # <<>> =>
          /\ Len(validations) = 1
          /\ validations[1].is_valid
          /\ executions[1].sql = validations[1].sql

\* C26 witness: the accepted candidate failed, the proposer's correction was a DROP
\* statement, and it was executed with one validation on record, that of the
\* candidate.
C26_Witness ==
    /\ pc = "done"
    /\ Len(executions) = 2
    /\ executions[2].sql = DropT
    /\ ~Accepts(executions[2].sql)
    /\ validations = <<[sql |-> executions[1].sql, is_valid |-> TRUE]>>

\* C27: the retry cycle is bounded and ends in success or exhaustion: at most
\* max_retries (3) executions and max_retries - 1 (2) correction requests are made;
\* each pass of the loop is one execution more than the corrections requested so
\* far; a correction is requested only after a failed execution that was not the
\* third; and when the loop is over at least one execution was made, and either the
\* last one succeeded or all three failed.
C27_RetryCycleIsBounded ==
    /\ Len(executions) <= max_retries
    /\ corrections <= max_retries - 1
    /\ corrections = Len(recoveries)
    /\ pc = "execute" =>
          /\ attempt < max_retries
          /\ Len(executions) = attempt /\ corrections = attempt
    /\ pc = "recover" =>
          /\ attempt < max_retries - 1
          /\ Len(executions) = attempt + 1 /\ corrections = attempt
          /\ ~executions[Len(executions)].success
    /\ Len(executions) = max_retries => pc \notin {"execute", "recover"}
    /\ (pc = "synthesize" \/ (pc = "done" /\ executions # <<>>)) =>
          /\ Len(executions) >= 1
          /\ corrections = Len(executions) - 1
          /\ executions[Len(executions)].success \/ Len(executions) = max_retries

\* C27 witness: three executions failed and two corrections were requested; the loop
\* is over and nothing more was asked of the proposer for a correction.
C27_Witness ==
    /\ pc = "synthesize"
    /\ Len(executions) = max_retries
    /\ ~executions[max_retries].success
    /\ corrections = max_retries - 1
    /\ Len(recoveries) = max_retries - 1

\* C29: when the proposer's first request fails, answer_question raises: the last
\* step of the log is the failed generation ("error", "LLM generation failed"),
\* generation was started once and not again, and nothing was validated, executed or
\* corrected for the question.  And a question got past generation only if some
\* backend answered the request that followed the generation step, with a response
\* that has a statement in it.
C29_FailedProposalIsPropagated ==
    /\ pc = "raised" =>
          /\ response.raised
          /\ reasoning_steps # <<>>
          /\ reasoning_steps[Len(reasoning_steps)].action = "error"
          /\ reasoning_steps[Len(reasoning_steps)].description = "LLM generation failed"
          /\ Cardinality(StepsOf("generate")) = 1
          /\ sql = <<>>
          /\ validations = <<>> /\ executions = <<>>
          /\ corrections = 0 /\ recoveries = <<>>
          /\ ExecutionAttemptsRecorded = 0
    /\ \A i \in StepsOf("generate") :
          (i < Len(reasoning_steps)
              /\ reasoning_steps[i + 1].description = "All models failed") =>
                  pc = "raised"
    /\ validations # <<>> =>
          /\ reasoning_text.has_sql
          /\ validations[1].sql = reasoning_text.sql
          /\ pc # "raised"

\* C29 witness: every backend failed on the first request: the log ends with the
\* "All models failed" step of _call_llm and the failed generation step, and
\* answer_question raised.
C29_Witness ==
    /\ pc = "raised"
    /\ response.raised
    /\ Len(reasoning_steps) >= 2
    /\ reasoning_steps[Len(reasoning_steps) - 1].description = "All models failed"
    /\ reasoning_steps[Len(reasoning_steps)].description = "LLM generation failed"
    /\ validations = <<>> /\ executions = <<>>
-----------------------------------------------------------------------------
(* Claims about the log under two invocations (checked under SpecConcurrent). *)

\* the steps of invocation t in a log
OwnSteps(t, log) == {i \in 1..Len(log) : log[i].owner = t}

\* the trace returned to t has lost steps of t
LostOwnSteps(t) == Cardinality(OwnSteps(t, ttrace[t].steps)) < Len(Additions(t))

\* the trace returned to t holds steps of the other question
HoldsForeignSteps(t) == OwnSteps(Other(t), ttrace[t].steps) # {}

\* the steps of a log are not numbered 1, 2, 3, ... in order
NonSequential(log) == \E i \in 1..Len(log) : log[i].step.step_number # i

\* the trace returned to t is that of its question: its steps, all of them, in the
\* order of their addition, numbered from 1
Intact(t) ==
    /\ ~LostOwnSteps(t) /\ ~HoldsForeignSteps(t) /\ ~NonSequential(ttrace[t].steps)
    /\ Len(ttrace[t].steps) = Len(Additions(t))
    /\ \A i \in 1..Len(ttrace[t].steps) :
          ttrace[t].steps[i].step.action = Additions(t)[i].action
    /\ ttrace[t].text = format_reasoning_trace(
          [i \in 1..Len(Additions(t)) |->
              ReasoningStep(i, Additions(t)[i].description, Additions(t)[i].action,
                            Additions(t)[i].details)])

\* C30: the log is safe for one question at a time and for no more.  The trace
\* returned for a question during which no other was in flight is intact; and when
\* another question's reset came after steps of a question in flight were logged,
\* the trace returned for that question has lost steps of its own.  Interleaved,
\* the two invocations reach a returned trace that has lost own steps, holds steps
\* of the other question and is not numbered in sequence (C30_Witness).
C30_LogUnsafeUnderInterleaving ==
    \A t \in Threads :
        ttrace[t].returned =>
            /\ ~overlapped[t] => Intact(t)
            /\ twiped[t] => LostOwnSteps(t)

\* C30 witness: two invocations interleaved, and the trace returned for one of them
\* has lost a step of its own, holds a step of the other question, and carries step
\* numbers out of sequence.
C30_Witness ==
    \E t \in Threads :
        /\ ttrace[t].returned
        /\ overlapped[t]
        /\ LostOwnSteps(t)
        /\ HoldsForeignSteps(t)
        /\ NonSequential(ttrace[t].steps)

====
